---- MODULE Spec2Model ----
(***************************************************************************)
(* Model of the parallel router core: the partition tree builder           *)
(* (vpr/src/route/partition_tree.cpp), the net-decomposing dispatcher and  *)
(* the convergence controller (route_parallel.cpp, here unnamed/part_000). *)
(*                                                                         *)
(* External collaborators (connection router, timing analyser, predictor,  *)
(* TBB scheduler) are modelled by nondeterministic choices over the        *)
(* results their interfaces allow.                                         *)
(***************************************************************************)
EXTENDS Integers, Sequences, FiniteSets, TLC

VARIABLES
    opts,            \* router options and device grid (read-only after Init)
    netlist,         \* per net: terminals' coordinates, criticalities, flags
    route_bb,        \* route_ctx.route_bb: net -> current routing bbox
    tree,            \* the PartitionTree of this iteration: path -> node
    task,            \* per node: the state of its "process this node" task
    route_trees,     \* route_ctx.route_trees: net -> optional route tree
    nets_to_retry,   \* ctx.nets_to_retry (concurrent vector)
    decomp_retries,  \* ctx.decomp_retries: net -> count
    ctl,             \* locals of try_parallel_route_tmpl
    iter_results,    \* RouteIterResults returned by the dispatcher
    main,            \* where the calling thread is
    hist,            \* history of this dispatch (what was flagged, needed, run)
    call             \* a helper function applied on its own: arguments, result

vars == <<opts, netlist, route_bb, tree, task, route_trees, nets_to_retry,
          decomp_retries, ctl, iter_results, main, hist, call>>

(***************************************************************************)
(* Bounds of the model.                                                    *)
(***************************************************************************)
BuildGridW == 3
BuildGridH == 3
BuildNets == 3
BuildMaxFanout == 2
\* Stand-in for the overflow cap HUGE_POSITIVE_FLOAT / 1e5 of pres_fac.
PresFacCap == 8

(***************************************************************************)
(* Program constants.                                                      *)
(***************************************************************************)
MIN_DECOMP_BIN_WIDTH == 5
MAX_DECOMP_REROUTE == 5
INT_MAX == 2147483647
NO_CUTLINE == -1
BB_SCALE_FACTOR == 2
BB_SCALE_ITER_COUNT == 5

Max(a, b) == IF a >= b THEN a ELSE b
Min(a, b) == IF a <= b THEN a ELSE b
Abs(a) == IF a >= 0 THEN a ELSE -a

RECURSIVE SeqSum(_)
SeqSum(s) == IF s = <<>> THEN 0 ELSE Head(s) + SeqSum(Tail(s))

SeqToSet(s) == {s[i] : i \in 1..Len(s)}

RECURSIVE SelectSeq2(_, _)
\* The subsequence of s whose elements are in the set keep (order kept).
SelectSeq2(s, keep) ==
    IF s = <<>> THEN <<>>
    ELSE IF Head(s) \in keep THEN <<Head(s)>> \o SelectSeq2(Tail(s), keep)
         ELSE SelectSeq2(Tail(s), keep)

t_bb(xmin, xmax, ymin, ymax) ==
    [xmin |-> xmin, xmax |-> xmax, ymin |-> ymin, ymax |-> ymax]

ValidBB(bb) == bb.xmin <= bb.xmax /\ bb.ymin <= bb.ymax

\* netlist.net_sinks(net_id).size()
fanouts(net_id) == Len(netlist[net_id].sinks)

(***************************************************************************)
(* PartitionTree::build_helper                                             *)
(***************************************************************************)

\* x_total_before[x] after the loop over the nets (x relative to x1).
x_total_before(nets, x1, x2, x) ==
    SeqSum([k \in 1..Len(nets) |->
        IF Max(x1, route_bb[nets[k]].xmin) - x1 <= x /\ x < x2 - x1
        THEN fanouts(nets[k]) ELSE 0])

x_total_after(nets, x1, x2, x) ==
    SeqSum([k \in 1..Len(nets) |->
        IF 0 <= x /\ x < Min(route_bb[nets[k]].xmax + 1, x2) - x1
        THEN fanouts(nets[k]) ELSE 0])

y_total_before(nets, y1, y2, y) ==
    SeqSum([k \in 1..Len(nets) |->
        IF Max(y1, route_bb[nets[k]].ymin) - y1 <= y /\ y < y2 - y1
        THEN fanouts(nets[k]) ELSE 0])

y_total_after(nets, y1, y2, y) ==
    SeqSum([k \in 1..Len(nets) |->
        IF 0 <= y /\ y < Min(route_bb[nets[k]].ymax + 1, y2) - y1
        THEN fanouts(nets[k]) ELSE 0])

\* Mutant of cut_rejected: rejects only a cut that leaves both sides empty.
cut_rejected_and(before, max_before, after, max_after) ==
    before = max_before /\ after = max_after

\* "Cutting here would leave no nets to the left or right"
cut_rejected(before, max_before, after, max_after) ==
    before = max_before \/ after = max_after

NoBest == [score |-> INT_MAX, pos |-> NO_CUTLINE, axis |-> "X"]

RECURSIVE scan_x(_, _, _, _, _)
\* The loop over x = 0 .. W-1, from x on, with the best cut found so far.
scan_x(nets, x1, x2, x, best) ==
    IF x >= x2 - x1 THEN best
    ELSE LET before == x_total_before(nets, x1, x2, x)
             after == x_total_after(nets, x1, x2, x)
             max_x_before == x_total_before(nets, x1, x2, x2 - x1 - 1)
             max_x_after == x_total_after(nets, x1, x2, 0)
             score == Abs(before - after)
         IN IF cut_rejected(before, max_x_before, after, max_x_after)
            THEN scan_x(nets, x1, x2, x + 1, best)
            ELSE IF score < best.score
                 THEN scan_x(nets, x1, x2, x + 1,
                             [score |-> score, pos |-> x1 + x, axis |-> "X"])
                 ELSE scan_x(nets, x1, x2, x + 1, best)

RECURSIVE scan_y_last_minimum(_, _, _, _, _)
\* Mutant of scan_y: a position that only equals the best score replaces it.
scan_y_last_minimum(nets, y1, y2, y, best) ==
    IF y >= y2 - y1 THEN best
    ELSE LET before == y_total_before(nets, y1, y2, y)
             after == y_total_after(nets, y1, y2, y)
             max_y_before == y_total_before(nets, y1, y2, y2 - y1 - 1)
             max_y_after == y_total_after(nets, y1, y2, 0)
             score == Abs(before - after)
         IN IF cut_rejected(before, max_y_before, after, max_y_after)
            THEN scan_y_last_minimum(nets, y1, y2, y + 1, best)
            ELSE IF score <= best.score
                 THEN scan_y_last_minimum(nets, y1, y2, y + 1,
                             [score |-> score, pos |-> y1 + y, axis |-> "Y"])
                 ELSE scan_y_last_minimum(nets, y1, y2, y + 1, best)

RECURSIVE scan_y(_, _, _, _, _)
scan_y(nets, y1, y2, y, best) ==
    IF y >= y2 - y1 THEN best
    ELSE LET before == y_total_before(nets, y1, y2, y)
             after == y_total_after(nets, y1, y2, y)
             max_y_before == y_total_before(nets, y1, y2, y2 - y1 - 1)
             max_y_after == y_total_after(nets, y1, y2, 0)
             score == Abs(before - after)
         IN IF cut_rejected(before, max_y_before, after, max_y_after)
            THEN scan_y(nets, y1, y2, y + 1, best)
            ELSE IF score < best.score
                 THEN scan_y(nets, y1, y2, y + 1,
                             [score |-> score, pos |-> y1 + y, axis |-> "Y"])
                 ELSE scan_y(nets, y1, y2, y + 1, best)

\* The cutline chosen for the region, or pos = -1.
best_cut(nets, x1, y1, x2, y2) ==
    scan_y(nets, y1, y2, 0, scan_x(nets, x1, x2, 0, NoBest))

\* Mutant of net_side: a net touching the cutline from the left goes left.
net_side_loose(lo, hi, best_pos) ==
    IF lo < best_pos /\ hi <= best_pos THEN "left"
    ELSE IF lo > best_pos /\ hi > best_pos THEN "right"
    ELSE IF lo <= best_pos /\ hi >= best_pos THEN "mine"
    ELSE "unreachable"

\* Which list a net with extent lo..hi on the cut axis is pushed to.
net_side(lo, hi, best_pos) ==
    IF lo < best_pos /\ hi < best_pos THEN "left"
    ELSE IF lo > best_pos /\ hi > best_pos THEN "right"
    ELSE IF lo <= best_pos /\ hi >= best_pos THEN "mine"
    ELSE "unreachable"

bb_lo(bb, axis) == IF axis = "X" THEN bb.xmin ELSE bb.ymin
bb_hi(bb, axis) == IF axis = "X" THEN bb.xmax ELSE bb.ymax

nets_on_side(nets, axis, best_pos, side) ==
    SelectSeq2(nets, {n \in SeqToSet(nets) :
        net_side(bb_lo(route_bb[n], axis), bb_hi(route_bb[n], axis), best_pos) = side})

\* The region <<x1, y1, x2, y2>> passed to the recursion for the left child.
left_region(axis, x1, y1, x2, y2, best_pos) ==
    IF axis = "X" THEN <<x1, y1, best_pos, y2>>
    ELSE <<x1, best_pos, x2, y2>>

\* Mutant of right_region: the right child is given the parent's region.
right_region_whole(axis, x1, y1, x2, y2, best_pos) == <<x1, y1, x2, y2>>

\* The region <<x1, y1, x2, y2>> passed to the recursion for the right child.
right_region(axis, x1, y1, x2, y2, best_pos) ==
    IF axis = "X" THEN <<best_pos, y2, x2, y2>>
    ELSE <<x1, y1, x2, best_pos>>

\* A freshly made PartitionTreeNode (partition_tree.h defaults).
NewNode(path, nets, axis, pos, region) ==
    [path |-> path, nets |-> nets, cutline_axis |-> axis, cutline_pos |-> pos,
     region |-> region, is_routable |-> FALSE, rerouted_nets |-> <<>>,
     virtual_nets |-> <<>>]

NullTree == [fail |-> FALSE, nodes |-> {}]
AssertFailed == [fail |-> TRUE, nodes |-> {}]

RECURSIVE build_helper(_, _, _, _, _, _)
\* Returns the nodes of the subtree (none for nullptr), or fail when
\* VTR_ASSERT(W > 0 && H > 0) or VTR_ASSERT(false) stops the program.
build_helper(nets, x1, y1, x2, y2, path) ==
    IF nets = <<>> THEN NullTree
    ELSE IF ~(x2 - x1 > 0 /\ y2 - y1 > 0) THEN AssertFailed
    ELSE LET best == best_cut(nets, x1, y1, x2, y2)
             region == <<x1, y1, x2, y2>>
         IN IF best.pos = NO_CUTLINE
            THEN [fail |-> FALSE,
                  nodes |-> {NewNode(path, nets, "X", NO_CUTLINE, region)}]
            ELSE LET left_nets == nets_on_side(nets, best.axis, best.pos, "left")
                     right_nets == nets_on_side(nets, best.axis, best.pos, "right")
                     my_nets == nets_on_side(nets, best.axis, best.pos, "mine")
                     lr == left_region(best.axis, x1, y1, x2, y2, best.pos)
                     rr == right_region(best.axis, x1, y1, x2, y2, best.pos)
                     left == build_helper(left_nets, lr[1], lr[2], lr[3], lr[4],
                                          Append(path, 0))
                     right == build_helper(right_nets, rr[1], rr[2], rr[3], rr[4],
                                           Append(path, 1))
                 IN IF Len(left_nets) + Len(right_nets) + Len(my_nets) # Len(nets)
                    THEN AssertFailed
                    ELSE IF left.fail \/ right.fail THEN AssertFailed
                    ELSE [fail |-> FALSE,
                          nodes |-> {NewNode(path, my_nets, best.axis, best.pos, region)}
                                    \cup left.nodes \cup right.nodes]

\* all_nets of the constructor: netlist.nets() in id order.
all_nets == [i \in 1..Len(netlist) |-> i]

\* PartitionTree::PartitionTree: _root = build_helper(all nets, whole grid).
PartitionTree ==
    build_helper(all_nets, 0, 0, opts.grid_w, opts.grid_h, <<>>)

\* The nodes of a build result as a function path -> node.
TreeOf(nodes) ==
    [p \in {n.path : n \in nodes} |-> CHOOSE n \in nodes : n.path = p]

ROOT == <<>>
has_left(p) == Append(p, 0) \in DOMAIN tree
has_right(p) == Append(p, 1) \in DOMAIN tree
IsPrefix(p, q) == Len(p) <= Len(q) /\ SubSeq(q, 1, Len(p)) = p

(***************************************************************************)
(* Geometry and decomposition helpers (route_parallel.cpp)                 *)
(***************************************************************************)
\* a > b where a is a size_t below 2^63 and the int b is converted to size_t:
\* a negative b wraps to 2^64 + b, which is above every such a.
SizeGtInt(a, b) == IF b < 0 THEN FALSE ELSE a > b

RECURSIVE Pow2(_)
Pow2(k) == IF k = 0 THEN 1 ELSE 2 * Pow2(k - 1)

RECURSIVE log2_ceil_from(_, _)
log2_ceil_from(num, k) == IF Pow2(k) >= num THEN k ELSE log2_ceil_from(num, k + 1)

\* vtr::log2_ceil: the smallest k with 2^k >= num.
log2_ceil(num) == log2_ceil_from(num, 0)

\* Coordinates (xlow, ylow) of a net's terminal: 0 is the source.
terminal_xy(net_id, isink) ==
    IF isink = 0 THEN netlist[net_id].src ELSE netlist[net_id].sinks[isink]

\* Side of the cutline (at cutline_pos + 0.5) a point is on.
which_side(pt, cutline_pos, axis) ==
    IF axis = "X" THEN (IF pt.x > cutline_pos THEN "RIGHT" ELSE "LEFT")
    ELSE (IF pt.y > cutline_pos THEN "RIGHT" ELSE "LEFT")

OtherSide(side) == IF side = "LEFT" THEN "RIGHT" ELSE "LEFT"

\* Mutant of clip_to_side: the bbox is returned unclipped.
clip_to_side_unclipped(bb, axis, cutline_pos, side) == bb

clip_to_side(bb, axis, cutline_pos, side) ==
    IF axis = "X" /\ side = "LEFT" THEN [bb EXCEPT !.xmax = cutline_pos]
    ELSE IF axis = "X" /\ side = "RIGHT" THEN [bb EXCEPT !.xmin = cutline_pos + 1]
    ELSE IF axis = "Y" /\ side = "LEFT" THEN [bb EXCEPT !.ymax = cutline_pos]
    ELSE [bb EXCEPT !.ymin = cutline_pos + 1]

VirtualNet(net_id, clipped_bb) == [net_id |-> net_id, clipped_bb |-> clipped_bb]

\* Mutant of make_decomposed_pair: the source's half always comes first.
make_decomposed_pair_source_first(net_id, cutline_pos, cutline_axis) ==
    LET source_side == which_side(terminal_xy(net_id, 0), cutline_pos, cutline_axis)
        bb == route_bb[net_id]
    IN <<VirtualNet(net_id, clip_to_side(bb, cutline_axis, cutline_pos, source_side)),
         VirtualNet(net_id,
             clip_to_side(bb, cutline_axis, cutline_pos, OtherSide(source_side)))>>

\* <<left half, right half>> of the net as VirtualNets.
make_decomposed_pair(net_id, cutline_pos, cutline_axis) ==
    LET source_side == which_side(terminal_xy(net_id, 0), cutline_pos, cutline_axis)
        bb == route_bb[net_id]
        source_half == VirtualNet(net_id,
            clip_to_side(bb, cutline_axis, cutline_pos, source_side))
        sink_half == VirtualNet(net_id,
            clip_to_side(bb, cutline_axis, cutline_pos, OtherSide(source_side)))
    IN IF source_side = "RIGHT" THEN <<sink_half, source_half>>
       ELSE <<source_half, sink_half>>

\* Mutant of inside_bb: the upper borders are outside.
inside_bb_without_max(pt, bb) ==
    pt.x >= bb.xmin /\ pt.x < bb.xmax /\ pt.y >= bb.ymin /\ pt.y < bb.ymax

\* inside_bb: the terminal's (xlow, ylow) is inside the bbox, borders included.
inside_bb(pt, bb) ==
    pt.x >= bb.xmin /\ pt.x <= bb.xmax /\ pt.y >= bb.ymin /\ pt.y <= bb.ymax

\* Integer division of size_t values; a zero divisor is undefined behaviour:
\* div0 = "zero" is the build whose division yields 0 (the other build traps).
SizeDiv(a, b) == IF b = 0 THEN 0 ELSE a \div b

\* route_ctx.net_rr_terminals[net_id].size(): the source and the sinks.
num_terminals(net_id) == Len(netlist[net_id].sinks) + 1

\* Mutant of too_few_terminals: the comparison is strict.
too_few_terminals_strict(terminals, n_samples) == terminals < n_samples + 2

\* "Need at least 1 extra on each side"
too_few_terminals(terminals, n_samples) == terminals <= n_samples + 2

\* Mutant of is_worth_decomposing: the strip before the cutline is not measured.
is_worth_decomposing_low_side_unchecked(net_id, cutline_pos, axis, div0) ==
    LET bb == route_bb[net_id]
        W == (bb.xmax - bb.xmin + 1)
        H == (bb.ymax - bb.ymin + 1)
        bins_x == W \div MIN_DECOMP_BIN_WIDTH
        bins_y == H \div MIN_DECOMP_BIN_WIDTH
        bin_width_x == SizeDiv(W, bins_x) + 1
        bin_width_y == SizeDiv(H, bins_y) + 1
        n_samples == Max(2 * (bins_x + bins_y) - 4, 4)
        value ==
            IF W < bin_width_x \/ H < bin_width_y THEN FALSE
            ELSE IF axis = "X" /\ bb.xmax - cutline_pos < bin_width_x THEN FALSE
            ELSE IF axis = "Y" /\ bb.ymax - cutline_pos < bin_width_x THEN FALSE
            ELSE IF too_few_terminals(num_terminals(net_id), n_samples) THEN FALSE
            ELSE TRUE
    IN IF (bins_x = 0 \/ bins_y = 0) /\ div0 = "trap"
       THEN [trap |-> TRUE, value |-> FALSE]
       ELSE [trap |-> FALSE, value |-> value]

\* is_worth_decomposing: [trap |-> the division by zero trapped, value |-> result]
is_worth_decomposing(net_id, cutline_pos, axis, div0) ==
    LET bb == route_bb[net_id]
        W == (bb.xmax - bb.xmin + 1)
        H == (bb.ymax - bb.ymin + 1)
        bins_x == W \div MIN_DECOMP_BIN_WIDTH
        bins_y == H \div MIN_DECOMP_BIN_WIDTH
        bin_width_x == SizeDiv(W, bins_x) + 1
        bin_width_y == SizeDiv(H, bins_y) + 1
        n_samples == Max(2 * (bins_x + bins_y) - 4, 4)
        value ==
            IF W < bin_width_x \/ H < bin_width_y THEN FALSE
            ELSE IF axis = "X" /\ bb.xmax - cutline_pos < bin_width_x THEN FALSE
            ELSE IF axis = "X" /\ cutline_pos - bb.xmin + 1 < bin_width_y THEN FALSE
            ELSE IF axis = "Y" /\ bb.ymax - cutline_pos < bin_width_x THEN FALSE
            ELSE IF axis = "Y" /\ cutline_pos - bb.ymin + 1 < bin_width_y THEN FALSE
            ELSE IF too_few_terminals(num_terminals(net_id), n_samples) THEN FALSE
            ELSE TRUE
    IN IF (bins_x = 0 \/ bins_y = 0) /\ div0 = "trap"
       THEN [trap |-> TRUE, value |-> FALSE]
       ELSE [trap |-> FALSE, value |-> value]

\* "We are too deep down the tree": size_t level against int log2_ceil(..) - 1.
level_too_deep(level) == SizeGtInt(level, log2_ceil(opts.num_workers) - 1)

\* Mutant of retries_exhausted: the counter never stops a decomposition.
retries_exhausted_never(retries) == FALSE

\* "We tried too many times to decompose this net."
retries_exhausted(retries) == retries >= MAX_DECOMP_REROUTE

\* should_decompose_net: [trap, value], see is_worth_decomposing.
should_decompose_net(net_id, level, cutline_pos, axis, div0) ==
    IF level_too_deep(level) THEN [trap |-> FALSE, value |-> FALSE]
    ELSE IF netlist[net_id].is_global /\ opts.two_stage_clock_routing
         THEN [trap |-> FALSE, value |-> FALSE]
    ELSE IF retries_exhausted(decomp_retries[net_id])
         THEN [trap |-> FALSE, value |-> FALSE]
    ELSE is_worth_decomposing(net_id, cutline_pos, axis, div0)

\* Does the routing that reaches the isinks in reached cross the cutline?
is_routing_over_cutline(net_id, reached, cutline_pos, cutline_axis) ==
    LET source_side == which_side(terminal_xy(net_id, 0), cutline_pos, cutline_axis)
    IN \E isink \in reached :
          which_side(terminal_xy(net_id, isink), cutline_pos, cutline_axis)
              # source_side

\* The isinks of a net.
isinks_of(net_id) == 1..Len(netlist[net_id].sinks)

\* tree.get_remaining_isinks()
remaining_isinks(net_id) == isinks_of(net_id) \ route_trees[net_id].reached

\* Mutant of sort_by_criticality: the isinks are left in pin order.
sort_by_index(net_id, isinks) ==
    [i \in 1..Cardinality(isinks) |->
        CHOOSE a \in isinks : Cardinality({b \in isinks : b < a}) = i - 1]

RECURSIVE sort_by_criticality(_, _)
\* The isinks of the set in decreasing pin criticality (equal ones by index).
sort_by_criticality(net_id, isinks) ==
    IF isinks = {} THEN <<>>
    ELSE LET crit == netlist[net_id].crit
             top == CHOOSE a \in isinks : \A b \in isinks :
                        crit[a] > crit[b] \/ (crit[a] = crit[b] /\ a <= b)
         IN <<top>> \o sort_by_criticality(net_id, isinks \ {top})

\* The sampling bin <<x, y>> of a terminal in get_decomposition_isinks.
bin_of(net_id, isink) ==
    LET bb == route_bb[net_id]
        width == (bb.xmax - bb.xmin + 1)
        height == (bb.ymax - bb.ymin + 1)
        bin_width_x == SizeDiv(width, width \div MIN_DECOMP_BIN_WIDTH) + 1
        bin_width_y == SizeDiv(height, height \div MIN_DECOMP_BIN_WIDTH) + 1
        pt == terminal_xy(net_id, isink)
    IN <<(pt.x - bb.xmin) \div bin_width_x,
         (pt.y - bb.ymin) \div bin_width_y>>

samples_total(net_id) ==
    LET bb == route_bb[net_id]
    IN ((bb.xmax - bb.xmin + 1) \div MIN_DECOMP_BIN_WIDTH)
       * ((bb.ymax - bb.ymin + 1) \div MIN_DECOMP_BIN_WIDTH)

RECURSIVE sample_targets(_, _, _, _, _)
\* The second loop of get_decomposition_isinks: targets in order, the bins
\* already taken (reached or sampled), how many samples are left to find.
sample_targets(net_id, targets, taken, to_find, out) ==
    IF targets = <<>> \/ to_find = 0 THEN out
    ELSE LET b == bin_of(net_id, Head(targets)) IN
         IF b \in taken
         THEN sample_targets(net_id, Tail(targets), taken, to_find, out)
         ELSE sample_targets(net_id, Tail(targets), taken \cup {b}, to_find - 1,
                             Append(out, Head(targets)))

\* get_decomposition_isinks(net_id, remaining_targets sorted by criticality);
\* reached: the isinks the route tree has reached (tree.get_reached_isinks()).
get_decomposition_isinks(net_id, remaining_targets, reached) ==
    LET reached_bins == {bin_of(net_id, s) : s \in reached}
        total == samples_total(net_id)
    IN IF total = 0 \/ Cardinality(reached_bins) >= total THEN <<>>
       ELSE sample_targets(net_id, remaining_targets, reached_bins,
                           total - Cardinality(reached_bins), <<>>)

\* get_vnet_isinks: the sink pin indices (1-indexed) of the net whose
\* terminal is inside the virtual net's clipped bbox.
get_vnet_isinks(vnet) ==
    {isink \in 1..Len(netlist[vnet.net_id].sinks) :
        inside_bb(terminal_xy(vnet.net_id, isink), vnet.clipped_bb)}

\* Mutant of get_vnet_remaining_isinks: no spatial filter.
get_vnet_remaining_isinks_unfiltered(vnet) ==
    sort_by_criticality(vnet.net_id, remaining_isinks(vnet.net_id))

\* get_vnet_remaining_isinks, then sorted by decreasing criticality.
get_vnet_remaining_isinks(vnet) ==
    sort_by_criticality(vnet.net_id,
        {s \in remaining_isinks(vnet.net_id) :
            inside_bb(terminal_xy(vnet.net_id, s), vnet.clipped_bb)})

(***************************************************************************)
(* The tree builder alone, over every small netlist.                       *)
(***************************************************************************)
(* Inputs                                                                   *)
(***************************************************************************)
XY(x, y) == [x |-> x, y |-> y]

Net(src, sinks, crit) ==
    [src |-> src, sinks |-> sinks, crit |-> crit,
     is_global |-> FALSE, is_ignored |-> FALSE]

\* t_router_opts and the device grid; router is the class of answers the
\* connection router gives in the run ("ok": every connection is found),
\* quality_levels the number of values the wirelength and the critical path
\* of a routing take in the run.
RouterOpts(grid_w, grid_h, num_workers, max_router_iterations, max_convergence_count, router) ==
    [grid_w |-> grid_w, grid_h |-> grid_h, num_workers |-> num_workers,
     max_router_iterations |-> max_router_iterations,
     max_convergence_count |-> max_convergence_count,
     two_stage_clock_routing |-> FALSE,
     first_iter_pres_fac |-> 0, initial_pres_fac |-> 1, pres_fac_mult |-> 2,
     bb_factor |-> 1, congested_iteration_threshold |-> max_router_iterations,
     routing_failure_predictor |-> "SAFE",
     routing_budgets_algorithm |-> "DISABLE",
     quality_levels |-> 1,
     exit_after_first_routing_iteration |-> FALSE,
     router |-> router]

\* RoutingMetrics, as far as routings are compared on them.
Metrics(used_wirelength, critical_path) ==
    [used_wirelength |-> used_wirelength, critical_path |-> critical_path]

\* What the controller measures on the routing of an iteration: feasible is
\* feasible_routing(), est is est_success_iteration against
\* abort_iteration_threshold ("nan", "below": not above it, "beyond"),
\* significant_overuse is overused_nodes above the predictor's minimum.
Observation(feasible, est, significant_overuse) ==
    [feasible |-> feasible, est |-> est, significant_overuse |-> significant_overuse]

\* Outside the second half of the loop body nothing is measured.
NoObs == Observation(FALSE, "none", FALSE)

NoRouteTrees == [n \in 1..Len(netlist) |-> [exists |-> FALSE, reached |-> {}]]

\* Locals of try_parallel_route_tmpl before the loop (lines 197-391).
InitCtl ==
    [itry |-> 1,
     pres_fac |-> opts.first_iter_pres_fac,
     bb_fac |-> opts.bb_factor,
     routing_is_successful |-> FALSE,
     legal_convergence_count |-> 0,
     itry_since_last_convergence |-> -1,
     router_congestion_mode |-> "NORMAL",
     itry_conflicted_mode |-> 0,
     best_routing |-> <<>>,
     best_routing_metrics |-> Metrics(0, 0),
     wirelength_info |-> 0,
     critical_path |-> 0,
     obs |-> NoObs,
     exit |-> "none",
     result |-> "none"]

NoResults == [is_routable |-> TRUE, rerouted_nets |-> <<>>, connections_routed |-> 0]
NoHist == [needed |-> {}, flagged |-> {}, runs |-> <<>>, connections_routed |-> 0]

\* No helper function is applied on its own in this run.
NoCall == [fn |-> "none"]

(***************************************************************************)
(* The tree builder alone, over every small netlist.                       *)
(***************************************************************************)
BuildBBs ==
    {t_bb(a, b, c, d) : a \in 0..BuildGridW - 1, b \in 0..BuildGridW - 1,
                        c \in 0..BuildGridH - 1, d \in 0..BuildGridH - 1}

ValidBuildBBs == {bb \in BuildBBs : ValidBB(bb)}

\* A net of the builder runs: f sinks, all placed on the bbox's corner.
BuildNet(bb, f) ==
    Net(XY(bb.xmin, bb.ymin), [i \in 1..f |-> XY(bb.xmin, bb.ymin)],
        [i \in 1..f |-> 1])

InitBuild ==
    /\ opts = RouterOpts(BuildGridW, BuildGridH, 2, 1, 1, "any")
    /\ \E n \in 1..BuildNets :
         \E bbs \in [1..n -> ValidBuildBBs], f \in 1..BuildMaxFanout :
            /\ route_bb = bbs
            /\ netlist = [i \in 1..n |-> BuildNet(bbs[i], IF i = 1 THEN f ELSE 1)]
    /\ tree = <<>>
    /\ task = <<>>
    /\ route_trees = <<>>
    /\ nets_to_retry = <<>>
    /\ decomp_retries = <<>>
    /\ ctl = [itry |-> 0]
    /\ iter_results = NoResults
    /\ main = "construct"
    /\ hist = NoHist
    /\ call = NoCall

\* PartitionTree partition_tree(ctx.net_list), on its own.
Construct ==
    /\ main = "construct"
    /\ LET built == PartitionTree IN
         IF built.fail
         THEN /\ main' = "assert_failed"
              /\ tree' = <<>>
         ELSE /\ main' = "built"
              /\ tree' = TreeOf(built.nodes)
    /\ UNCHANGED call
    /\ UNCHANGED <<opts, netlist, route_bb, task, route_trees, nets_to_retry,
                   decomp_retries, ctl, iter_results, hist>>

NextBuild == Construct

SpecBuild == InitBuild /\ [][NextBuild]_vars

(***************************************************************************)
(* The tree builder on devices smaller than one decomposition bin.         *)
(***************************************************************************)
\* The device sizes W x H with W * H below MIN_DECOMP_BIN_WIDTH.
TinyGrids ==
    {g \in (1..MIN_DECOMP_BIN_WIDTH - 1) \X (1..MIN_DECOMP_BIN_WIDTH - 1) :
        g[1] * g[2] < MIN_DECOMP_BIN_WIDTH}

\* The valid bounding boxes on a W x H device.
BBsOn(W, H) ==
    {bb \in {t_bb(a, b, c, d) : a \in 0..W - 1, b \in 0..W - 1,
                                c \in 0..H - 1, d \in 0..H - 1} : ValidBB(bb)}

InitTiny ==
    /\ \E g \in TinyGrids, n \in 1..BuildNets :
         \E bbs \in [1..n -> BBsOn(g[1], g[2])], f \in 1..BuildMaxFanout :
            /\ opts = RouterOpts(g[1], g[2], 2, 1, 1, "any")
            /\ route_bb = bbs
            /\ netlist = [i \in 1..n |-> BuildNet(bbs[i], IF i = 1 THEN f ELSE 1)]
    /\ tree = <<>>
    /\ task = <<>>
    /\ route_trees = <<>>
    /\ nets_to_retry = <<>>
    /\ decomp_retries = <<>>
    /\ ctl = [itry |-> 0]
    /\ iter_results = NoResults
    /\ main = "construct"
    /\ hist = NoHist
    /\ call = NoCall

SpecTiny == InitTiny /\ [][NextBuild]_vars

\* The builder on the small square device and on the tiny devices, the
\* longest of which are four tiles long.
InitAnyDevice == InitBuild \/ InitTiny

SpecAnyDevice == InitAnyDevice /\ [][NextBuild]_vars

(***************************************************************************)
(* Properties of the built tree                                            *)
(***************************************************************************)
RECURSIVE Count(_, _)
\* How many times e occurs in the sequence s.
Count(s, e) ==
    IF s = <<>> THEN 0
    ELSE (IF Head(s) = e THEN 1 ELSE 0) + Count(Tail(s), e)

RECURSIVE OccurrencesIn(_, _)
OccurrencesIn(paths, n) ==
    IF paths = {} THEN 0
    ELSE LET p == CHOOSE q \in paths : TRUE
         IN Count(tree[p].nets, n) + OccurrencesIn(paths \ {p}, n)

\* In how many places of the tree's nets lists net n is held.
Occurrences(n) == OccurrencesIn(DOMAIN tree, n)

IsInternal(p) == tree[p].cutline_pos # NO_CUTLINE

NetsOf(p) == SeqToSet(tree[p].nets)

\* C1: once the constructor has run, every net of the netlist is held in
\* exactly one node's nets list, exactly once (no net missing, none twice).
C1_EveryNetInExactlyOneNode ==
    main \in {"built", "assert_failed"} =>
        \A n \in DOMAIN netlist : Occurrences(n) = 1

\* C4: for every internal node with axis A and position p, its own nets
\* have bb.min[A] <= p <= bb.max[A], every net in its left subtree has
\* bb.max[A] < p and every net in its right subtree has bb.min[A] > p.
C4_CutlineContainment ==
    \A p \in DOMAIN tree : IsInternal(p) =>
        LET A == tree[p].cutline_axis
            pos == tree[p].cutline_pos
        IN /\ \A n \in NetsOf(p) :
                bb_lo(route_bb[n], A) <= pos /\ pos <= bb_hi(route_bb[n], A)
           /\ \A q \in DOMAIN tree : \A n \in NetsOf(q) :
                /\ IsPrefix(Append(p, 0), q) => bb_hi(route_bb[n], A) < pos
                /\ IsPrefix(Append(p, 1), q) => bb_lo(route_bb[n], A) > pos

\* A tree was built whose root cut has nets on the cutline, nets touching the
\* row next to it on the left side, and nets on the right.
C4_Witness ==
    /\ main = "built"
    /\ IsInternal(ROOT)
    /\ NetsOf(ROOT) # {}
    /\ has_left(ROOT) /\ has_right(ROOT)
    /\ \E n \in NetsOf(<<0>>) :
          bb_hi(route_bb[n], tree[ROOT].cutline_axis) = tree[ROOT].cutline_pos - 1

\* C5: every node of a built tree has both children or none; a node has
\* children exactly when a cutline was accepted for it, and then at least one
\* net lies strictly on each side (the subtrees hold nets).
C5_BothChildrenOrNone ==
    \A p \in DOMAIN tree :
        /\ has_left(p) <=> has_right(p)
        /\ IsInternal(p) <=> has_left(p)
        /\ IsInternal(p) =>
              /\ \E q \in DOMAIN tree : IsPrefix(Append(p, 0), q) /\ NetsOf(q) # {}
              /\ \E q \in DOMAIN tree : IsPrefix(Append(p, 1), q) /\ NetsOf(q) # {}

\* A tree was built whose root has a cutline and both children, and whose
\* left child is a leaf holding two or more nets (every cut of it is one-way).
C5_Witness ==
    /\ main = "built"
    /\ IsInternal(ROOT) /\ has_left(ROOT) /\ has_right(ROOT)
    /\ ~IsInternal(<<0>>) /\ ~has_left(<<0>>) /\ ~has_right(<<0>>)
    /\ Len(tree[<<0>>].nets) >= 2

\* C27: on a device whose area is below one decomposition bin the built tree
\* is a single root leaf that holds all nets.
C27_TinyGridSingleLeaf ==
    (main = "built" /\ opts.grid_w * opts.grid_h < MIN_DECOMP_BIN_WIDTH) =>
        /\ DOMAIN tree = {ROOT}
        /\ ~IsInternal(ROOT)
        /\ tree[ROOT].nets = all_nets

\* Two regions <<x1, y1, x2, y2>> (x2 and y2 excluded) share a grid tile.
RegionsOverlap(a, b) ==
    /\ Max(a[1], b[1]) < Min(a[3], b[3])
    /\ Max(a[2], b[2]) < Min(a[4], b[4])

\* The positions a cutline of the axis can take in a region: x1 + x for the
\* offsets x = 0 .. W-1 of the scan (y alike).
CutPositions(axis, r) == IF axis = "X" THEN r[1]..r[3] - 1 ELSE r[2]..r[4] - 1

\* The regions build_helper accepts on the device: W > 0 and H > 0.
GridRegions ==
    UNION {{<<x1, y1, x2, y2>> : x2 \in x1 + 1..opts.grid_w, y2 \in y1 + 1..opts.grid_h} :
              x1 \in 0..opts.grid_w - 1, y1 \in 0..opts.grid_h - 1}

\* C26: the regions handed to the recursion for the left and the right
\* subtree never overlap: for every region of the device and every cutline in
\* it, and so for the two children of every internal node of a built tree,
\* whose regions are the ones the recursion was given.
C26_ChildRegionsDisjoint ==
    /\ \A r \in GridRegions, axis \in {"X", "Y"} :
          \A pos \in CutPositions(axis, r) :
             ~RegionsOverlap(left_region(axis, r[1], r[2], r[3], r[4], pos),
                             right_region(axis, r[1], r[2], r[3], r[4], pos))
    /\ \A p \in DOMAIN tree :
          IsInternal(p) =>
             LET r == tree[p].region
                 lr == left_region(tree[p].cutline_axis, r[1], r[2], r[3], r[4],
                                   tree[p].cutline_pos)
                 rr == right_region(tree[p].cutline_axis, r[1], r[2], r[3], r[4],
                                    tree[p].cutline_pos)
             IN /\ r \in GridRegions
                /\ tree[p].cutline_pos \in CutPositions(tree[p].cutline_axis, r)
                /\ has_left(p) => tree[Append(p, 0)].region = lr
                /\ has_right(p) => tree[Append(p, 1)].region = rr
                /\ has_left(p) /\ has_right(p) =>
                      ~RegionsOverlap(tree[Append(p, 0)].region,
                                      tree[Append(p, 1)].region)

\* The nets build_helper was called with for the node p of a built tree.
Candidates(p) ==
    {n \in DOMAIN netlist : \E q \in DOMAIN tree :
        IsPrefix(p, q) /\ n \in SeqToSet(tree[q].nets)}

\* A cutline at pos has a net of cand wholly below it and one wholly above.
Separates(cand, axis, pos) ==
    /\ \E n \in cand : bb_hi(route_bb[n], axis) < pos
    /\ \E n \in cand : bb_lo(route_bb[n], axis) > pos

\* |before - after| at pos: the sinks of the nets that begin at or below
\* pos against those of the nets that end at or above it.
CutScore(cand, axis, pos) ==
    Abs(SeqSum([n \in 1..Len(netlist) |->
                  IF n \in cand /\ bb_lo(route_bb[n], axis) <= pos
                  THEN fanouts(n) ELSE 0])
        - SeqSum([n \in 1..Len(netlist) |->
                  IF n \in cand /\ bb_hi(route_bb[n], axis) >= pos
                  THEN fanouts(n) ELSE 0]))

\* The cut (axis, pos), or none for pos = -1, is the one the rule picks
\* among the separating positions of the region r: least score, X before Y
\* on equal scores, the lowest coordinate within an axis.
IsRuleChoice(cand, r, axis, pos) ==
    LET qualifying == {c \in {"X", "Y"} \X (0..Max(r[3], r[4])) :
                          /\ c[2] \in CutPositions(c[1], r)
                          /\ Separates(cand, c[1], c[2])}
    IN IF qualifying = {} THEN pos = NO_CUTLINE
       ELSE /\ <<axis, pos>> \in qualifying
            /\ \A c \in qualifying :
                  LET mine == CutScore(cand, axis, pos)
                      other == CutScore(cand, c[1], c[2])
                  IN /\ mine <= other
                     /\ (mine = other /\ c[1] = "X") => axis = "X"
                     /\ (mine = other /\ c[1] = axis) => pos <= c[2]

C35_RegionAlwaysPositive ==
    /\ LET best == best_cut(all_nets, 0, 0, opts.grid_w, opts.grid_h)
           lr == left_region(best.axis, 0, 0, opts.grid_w, opts.grid_h, best.pos)
           rr == right_region(best.axis, 0, 0, opts.grid_w, opts.grid_h, best.pos)
       IN best.pos # NO_CUTLINE =>
            /\ nets_on_side(all_nets, best.axis, best.pos, "left") # <<>>
                  => lr[3] - lr[1] > 0 /\ lr[4] - lr[2] > 0
            /\ nets_on_side(all_nets, best.axis, best.pos, "right") # <<>>
                  => rr[3] - rr[1] > 0 /\ rr[4] - rr[2] > 0
    /\ main # "assert_failed"

\* The bbox lies inside the region <<x1, y1, x2, y2>> (x2, y2 excluded).
InRegion(bb, r) ==
    /\ r[1] <= bb.xmin /\ bb.xmax < r[3]
    /\ r[2] <= bb.ymin /\ bb.ymax < r[4]

\* The extent <<lo, hi>> of a region along an axis.
Extent(r, axis) == IF axis = "X" THEN <<r[1], r[3]>> ELSE <<r[2], r[4]>>

\* C36: below an internal node the left subtree is built for the part of
\* the node's region below the cutline and the right subtree for the part
\* above it, and the region of every node contains the bbox of every net its
\* call was given.
C36_HalfRegionsHoldTheirNets ==
    /\ \A p \in DOMAIN tree : IsInternal(p) =>
          LET axis == tree[p].cutline_axis
              pos == tree[p].cutline_pos
              whole == Extent(tree[p].region, axis)
          IN /\ has_left(p) =>
                   LET part == Extent(tree[Append(p, 0)].region, axis)
                   IN part[1] = whole[1] /\ part[2] <= pos + 1
             /\ has_right(p) =>
                   LET part == Extent(tree[Append(p, 1)].region, axis)
                   IN part[1] >= pos /\ part[2] = whole[2]
    /\ \A p \in DOMAIN tree : \A n \in Candidates(p) :
          InRegion(route_bb[n], tree[p].region)

\* A tree was built whose root was cut into two regions of positive area.
C26_Witness ==
    /\ main = "built"
    /\ IsInternal(ROOT) /\ has_left(ROOT) /\ has_right(ROOT)
    /\ tree[<<0>>].region \in GridRegions
    /\ tree[<<1>>].region \in GridRegions
    /\ tree[<<0>>].region # tree[<<1>>].region

(***************************************************************************)
(* The dispatcher: one "process this node" task per node                   *)
(* (decompose_route_partition_tree_helper and what it calls)               *)
(***************************************************************************)
Op(kind, net, bb, sinks) == [kind |-> kind, net |-> net, bb |-> bb, sinks |-> sinks]

\* The task is between two routing calls.
NoOp == Op("none", 0, t_bb(0, 0, 0, 0), <<>>)

Position(st, i) == [st |-> st, i |-> i, op |-> NoOp]

\* Where the task stands when it enters its nets loop.
first_position(p) ==
    IF Len(tree[p].nets) >= 1 THEN Position("nets", 1) ELSE Position("vnets", 1)

\* Where the task stands after the i-th net of its nets loop.
after_net(p, i) ==
    IF i + 1 <= Len(tree[p].nets) THEN Position("nets", i + 1)
    ELSE Position("vnets", 1)

IsChildOf(q, p) == q = Append(p, 0) \/ q = Append(p, 1)

Orders(s) ==
    {[i \in 1..Len(s) |-> s[f[i]]] :
        f \in {g \in [1..Len(s) -> 1..Len(s)] :
                 \A i, j \in 1..Len(s) : i # j => g[i] # g[j]}}

\* Mutant of sorted_by_fanout: node.nets is left in any order.
sorted_in_any_order(nets) == Orders(nets)

\* The orders std::sort may leave node.nets in: most sinks first.
sorted_by_fanout(nets) ==
    {s \in Orders(nets) :
        \A i \in 1..Len(s) - 1 : fanouts(s[i]) >= fanouts(s[i + 1])}

\* Mutant of start_task: the children are put in the task group at once.
start_task_and_children(tk, p) ==
    [q \in DOMAIN tk |->
        IF q = p THEN first_position(p)
        ELSE IF IsChildOf(q, p) THEN Position("queued", 0)
        ELSE tk[q]]

\* The task group when the task of node p starts running.
start_task(tk, p) == [tk EXCEPT ![p] = first_position(p)]

\* g.run(left), g.run(right) at the end of the task of node p.
spawn_children(tk, p) ==
    [q \in DOMAIN tk |->
        IF q = p THEN Position("done", 0)
        ELSE IF IsChildOf(q, p) THEN Position("queued", 0)
        ELSE tk[q]]

\* The answers the connection router may give for a whole net.
RouterAnswers == IF opts.router = "ok" THEN {"ok"} ELSE {"ok", "retry", "hard"}

\* How many sinks of a list are connected before timing_driven_route_sink
\* fails (all of them: no failure).
FailPoints(sinks) == IF opts.router = "ok" THEN {Len(sinks)} ELSE 0..Len(sinks)

\* should_really_route_net: no for ignored nets, yes for unrouted ones, else
\* as should_route_net and the hold budgets say.
NeedChoices(net_id) ==
    IF netlist[net_id].is_ignored THEN {FALSE}
    ELSE IF ~route_trees[net_id].exists THEN {TRUE}
    ELSE BOOLEAN

\* setup_routing_resources: the sinks the pruned route tree still reaches,
\* any part of the old ones (a fresh tree in iteration 1 or for a net
\* without one).
KeptChoices(net_id) ==
    IF route_trees[net_id].exists /\ ctl.itry > 1
    THEN SUBSET route_trees[net_id].reached
    ELSE {{}}

Flag(p, net_id, kind, success, retry) ==
    [node |-> p, net |-> net_id, kind |-> kind, success |-> success,
     retry_with_full_bb |-> retry]

Prefix(s, k) == {s[i] : i \in 1..k}

\* The task of node p starts: sort, is_routable = true, rerouted_nets.clear().
StartTask(p) ==
    /\ main = "dispatch"
    /\ task[p].st = "queued"
    /\ \E sorted \in sorted_by_fanout(tree[p].nets) :
          tree' = [tree EXCEPT ![p].nets = sorted,
                               ![p].is_routable = TRUE,
                               ![p].rerouted_nets = <<>>]
    /\ task' = start_task(task, p)
    /\ hist' = [hist EXCEPT !.runs[p] = @ + 1]
    /\ UNCHANGED call
    /\ UNCHANGED <<opts, netlist, route_bb, route_trees, nets_to_retry,
                   decomp_retries, ctl, iter_results, main>>

\* The next net of node.nets: should_decompose_net, then the start of
\* route_and_decompose or of try_parallel_route_net.
BeginNet(p) ==
    /\ main = "dispatch"
    /\ task[p].st = "nets" /\ task[p].op.kind = "none"
    /\ LET net_id == tree[p].nets[task[p].i] IN
       \E div0 \in {"trap", "zero"}, need \in NeedChoices(net_id),
          kept \in KeptChoices(net_id) :
         LET d == should_decompose_net(net_id, Len(p), tree[p].cutline_pos,
                                       tree[p].cutline_axis, div0)
             remaining_targets ==
                 sort_by_criticality(net_id, isinks_of(net_id) \ kept)
         IN IF d.trap
            THEN /\ main' = "div_by_zero"
                 /\ UNCHANGED <<task, route_trees, hist>>
            ELSE IF ~need
            THEN /\ task' = [task EXCEPT ![p] = after_net(p, task[p].i)]
                 /\ UNCHANGED <<main, route_trees, hist>>
            ELSE /\ route_trees' = [route_trees EXCEPT ![net_id] =
                                      [exists |-> TRUE, reached |-> kept]]
                 /\ hist' = [hist EXCEPT !.needed = @ \cup {net_id}]
                 /\ task' = [task EXCEPT ![p].op =
                       IF d.value
                       THEN Op("skeleton", net_id, route_bb[net_id],
                               get_decomposition_isinks(net_id, remaining_targets, kept))
                       ELSE Op("net", net_id, route_bb[net_id], <<>>)]
                 /\ UNCHANGED main
    /\ UNCHANGED call
    /\ UNCHANGED <<opts, netlist, route_bb, tree, nets_to_retry,
                   decomp_retries, ctl, iter_results>>

\* The skeleton loop of route_and_decompose ends: either every chosen sink
\* was connected and the two virtual nets go to the children, or a sink
\* failed and the net goes on to try_parallel_route_net.
EndSkeleton(p) ==
    /\ main = "dispatch"
    /\ task[p].op.kind = "skeleton"
    /\ LET op == task[p].op
           net_id == op.net
       IN \E k \in FailPoints(op.sinks) :
          /\ route_trees' = [route_trees EXCEPT ![net_id].reached =
                                @ \cup Prefix(op.sinks, k)]
          /\ IF k < Len(op.sinks)
             THEN /\ task' = [task EXCEPT ![p].op =
                                 Op("net", net_id, route_bb[net_id], <<>>)]
                  /\ hist' = [hist EXCEPT !.connections_routed = @ + k]
                  /\ UNCHANGED <<tree, decomp_retries, main>>
             ELSE /\ decomp_retries' = [decomp_retries EXCEPT ![net_id] = @ + 1]
                  /\ hist' = [hist EXCEPT
                        !.connections_routed = @ + k,
                        !.flagged = @ \cup {Flag(p, net_id, "decomposed", TRUE, FALSE)}]
                  /\ IF has_left(p) /\ has_right(p)
                     THEN LET pair == make_decomposed_pair(net_id,
                                         tree[p].cutline_pos, tree[p].cutline_axis)
                          IN /\ tree' = [tree EXCEPT
                                   ![Append(p, 0)].virtual_nets = Append(@, pair[1]),
                                   ![Append(p, 1)].virtual_nets = Append(@, pair[2]),
                                   ![p].rerouted_nets = Append(@, net_id)]
                             /\ task' = [task EXCEPT ![p] = after_net(p, task[p].i)]
                             /\ UNCHANGED main
                     ELSE /\ main' = "null_child"
                          /\ UNCHANGED <<tree, task>>
    /\ UNCHANGED call
    /\ UNCHANGED <<opts, netlist, route_bb, nets_to_retry, ctl, iter_results>>

\* try_parallel_route_net returns for a net that had to be routed, and the
\* helper handles its flags.
EndNet(p) ==
    /\ main = "dispatch"
    /\ task[p].op.kind = "net"
    /\ LET net_id == task[p].op.net IN
       \E answer \in RouterAnswers :
          /\ route_trees' = [route_trees EXCEPT ![net_id].reached =
                IF answer = "ok" THEN isinks_of(net_id) ELSE @]
          /\ tree' = [tree EXCEPT
                ![p].is_routable = IF answer = "hard" THEN FALSE ELSE @,
                ![p].rerouted_nets = Append(@, net_id)]
          /\ nets_to_retry' = IF answer = "retry"
                              THEN Append(nets_to_retry, net_id)
                              ELSE nets_to_retry
          /\ hist' = [hist EXCEPT
                !.connections_routed = @ +
                    (IF answer = "ok"
                     THEN Cardinality(isinks_of(net_id) \ route_trees[net_id].reached)
                     ELSE 0),
                !.flagged = @ \cup
                    {Flag(p, net_id, "net", answer = "ok", answer = "retry")}]
          /\ task' = [task EXCEPT ![p] = after_net(p, task[p].i)]
    /\ UNCHANGED call
    /\ UNCHANGED <<opts, netlist, route_bb, decomp_retries, ctl, iter_results, main>>

\* route_virtual_net starts on the next inherited virtual net.
BeginVnet(p) ==
    /\ main = "dispatch"
    /\ task[p].st = "vnets" /\ task[p].op.kind = "none"
    /\ task[p].i <= Len(tree[p].virtual_nets)
    /\ LET vnet == tree[p].virtual_nets[task[p].i] IN
          task' = [task EXCEPT ![p].op =
              Op("vnet", vnet.net_id, vnet.clipped_bb, get_vnet_remaining_isinks(vnet))]
    /\ UNCHANGED call
    /\ UNCHANGED <<opts, netlist, route_bb, tree, route_trees, nets_to_retry,
                   decomp_retries, ctl, iter_results, main, hist, call>>

\* route_virtual_net returns, and the helper handles its flags.
EndVnet(p) ==
    /\ main = "dispatch"
    /\ task[p].op.kind = "vnet"
    /\ LET op == task[p].op
           net_id == op.net
       IN \E k \in FailPoints(op.sinks), retry \in BOOLEAN :
          LET success == k = Len(op.sinks)
              retry_with_full_bb == ~success /\ retry
          IN /\ success => ~retry
             /\ route_trees' = [route_trees EXCEPT ![net_id].reached =
                                   @ \cup Prefix(op.sinks, k)]
             /\ decomp_retries' =
                   IF ~success /\ ~retry_with_full_bb
                   THEN [decomp_retries EXCEPT ![net_id] = MAX_DECOMP_REROUTE]
                   ELSE decomp_retries
             /\ nets_to_retry' =
                   IF retry_with_full_bb THEN Append(nets_to_retry, net_id)
                   ELSE nets_to_retry
             /\ hist' = [hist EXCEPT
                   !.connections_routed = @ + k,
                   !.flagged = @ \cup
                       {Flag(p, net_id, "vnet", success, retry_with_full_bb)}]
             /\ task' = [task EXCEPT ![p] = Position("vnets", task[p].i + 1)]
    /\ UNCHANGED call
    /\ UNCHANGED <<opts, netlist, route_bb, tree, ctl, iter_results, main>>

\* Both loops are over: the children are put in the task group, or the
\* single-branch assertion stops the program.
FinishTask(p) ==
    /\ main = "dispatch"
    /\ task[p].st = "vnets" /\ task[p].op.kind = "none"
    /\ task[p].i > Len(tree[p].virtual_nets)
    /\ IF has_left(p) /\ has_right(p)
       THEN task' = spawn_children(task, p) /\ UNCHANGED main
       ELSE IF has_left(p) \/ has_right(p)
       THEN main' = "single_branch" /\ UNCHANGED task
       ELSE task' = [task EXCEPT ![p] = Position("done", 0)] /\ UNCHANGED main
    /\ UNCHANGED call
    /\ UNCHANGED <<opts, netlist, route_bb, tree, route_trees, nets_to_retry,
                   decomp_retries, ctl, iter_results, hist>>

(***************************************************************************)
(* decompose_route_partition_tree: wait, grow the retried bboxes, reduce   *)
(***************************************************************************)
\* Mutant of all_tasks_done: only the root's own task is waited for.
root_task_done(tk) == tk[ROOT].st = "done"

\* g.wait() returns: every task of the tree has run to its end.
all_tasks_done(tk) == \A p \in DOMAIN tk : tk[p].st = "done"

\* Mutant of reduce_partition_tree_helper: the subtrees are not visited.
reduce_node_only(p, results) ==
    [results EXCEPT !.is_routable = @ /\ tree[p].is_routable,
                    !.rerouted_nets = @ \o tree[p].rerouted_nets]

RECURSIVE reduce_partition_tree_helper(_, _)
\* The node's results, then its left subtree's, then its right subtree's.
reduce_partition_tree_helper(p, results) ==
    LET mine == [results EXCEPT
                    !.is_routable = @ /\ tree[p].is_routable,
                    !.rerouted_nets = @ \o tree[p].rerouted_nets]
        with_left == IF has_left(p)
                     THEN reduce_partition_tree_helper(Append(p, 0), mine)
                     ELSE mine
    IN IF has_right(p)
       THEN reduce_partition_tree_helper(Append(p, 1), with_left)
       ELSE with_left

\* Mutant of full_device_bb: the grid's width and height are taken as the
\* last column and row.
full_device_bb_past_edge == t_bb(0, opts.grid_w, 0, opts.grid_h)

\* The bbox given to a net that is to be retried: the whole device.
full_device_bb == t_bb(0, opts.grid_w - 1, 0, opts.grid_h - 1)

DispatcherReturn ==
    /\ main = "dispatch"
    /\ all_tasks_done(task)
    /\ route_bb' = [n \in DOMAIN route_bb |->
          IF n \in SeqToSet(nets_to_retry) THEN full_device_bb ELSE route_bb[n]]
    /\ decomp_retries' = [n \in DOMAIN decomp_retries |->
          IF n \in SeqToSet(nets_to_retry) THEN MAX_DECOMP_REROUTE
          ELSE decomp_retries[n]]
    /\ iter_results' = reduce_partition_tree_helper(ROOT,
          [NoResults EXCEPT !.connections_routed = hist.connections_routed])
    /\ main' = "ctl"
    /\ UNCHANGED call
    /\ UNCHANGED <<opts, netlist, tree, task, route_trees, nets_to_retry, ctl, hist>>

(***************************************************************************)
(* The convergence controller: try_parallel_route_tmpl                     *)
(***************************************************************************)
SetMin(S) == CHOOSE a \in S : \A b \in S : a <= b
SetMax(S) == CHOOSE a \in S : \A b \in S : a >= b

\* load_route_bb: every net's bbox is the bbox of its terminals, widened by
\* bb_fac and clipped to the device.
load_route_bb(bb_fac) ==
    [n \in DOMAIN netlist |->
        LET pts == {terminal_xy(n, k) : k \in 0..Len(netlist[n].sinks)}
            xs == {pt.x : pt \in pts}
            ys == {pt.y : pt \in pts}
        IN t_bb(Max(SetMin(xs) - bb_fac, 0), Min(SetMax(xs) + bb_fac, opts.grid_w - 1),
                Max(SetMin(ys) - bb_fac, 0), Min(SetMax(ys) + bb_fac, opts.grid_h - 1))]

\* The top of the loop body up to the start of the root task:
\* the tree of this iteration is built and the root task is started.
BeginIteration ==
    /\ main = "iter_start"
    /\ ctl' = [ctl EXCEPT !.itry_since_last_convergence =
                  IF @ >= 0 THEN @ + 1 ELSE @]
    /\ LET built == PartitionTree IN
         IF built.fail
         THEN /\ main' = "assert_failed"
              /\ UNCHANGED <<tree, task, nets_to_retry, hist>>
         ELSE IF built.nodes = {}
         THEN /\ main' = "null_root"
              /\ UNCHANGED <<tree, task, nets_to_retry, hist>>
         ELSE /\ main' = "dispatch"
              /\ tree' = TreeOf(built.nodes)
              /\ task' = [q \in {n.path : n \in built.nodes} |->
                            IF q = ROOT THEN Position("queued", 0)
                            ELSE Position("unspawned", 0)]
              /\ nets_to_retry' = <<>>
              /\ hist' = [NoHist EXCEPT
                            !.runs = [q \in {n.path : n \in built.nodes} |-> 0]]
    /\ UNCHANGED call
    /\ UNCHANGED <<opts, netlist, route_bb, route_trees, decomp_retries, iter_results>>

\* Mutant of impossible_to_route: the dispatcher's is_routable is ignored.
impossible_to_route_ignored(results) == FALSE

\* if (!iter_results.is_routable) return false;
impossible_to_route(results) == ~results.is_routable

\* The answers the predictor may give: with the predictor off the threshold
\* is infinite and no estimate is above it.
EstChoices ==
    IF opts.routing_failure_predictor = "OFF" THEN {"nan", "below"}
    ELSE {"nan", "below", "beyond"}

\* A feasible routing has no overused node.
Observations ==
    {Observation(feasible, est, significant) :
        feasible \in BOOLEAN, est \in EstChoices,
        significant \in BOOLEAN} \ {Observation(TRUE, est, TRUE) : est \in EstChoices}

\* The loop body after the dispatcher has returned, up to the progress
\* report (lines 444-523): the return on an unroutable iteration, else the
\* metrics of the current routing.
MeasureIteration ==
    /\ main = "ctl"
    /\ tree' = <<>>
    /\ task' = <<>>
    /\ IF impossible_to_route(iter_results)
       THEN /\ main' = "returned"
            /\ ctl' = [ctl EXCEPT !.result = "false"]
       ELSE /\ main' = "decide"
            /\ \E o \in Observations, wl \in 1..opts.quality_levels,
                  cpd \in 1..opts.quality_levels :
                  ctl' = [ctl EXCEPT !.obs = o, !.wirelength_info = wl,
                                     !.critical_path = cpd]
    /\ UNCHANGED call
    /\ UNCHANGED <<opts, netlist, route_bb, route_trees, nets_to_retry,
                   decomp_retries, iter_results, hist>>

\* Mutant of is_better_quality_routing: every legal routing replaces the best.
is_better_quality_routing_always(best_routing, best_routing_metrics, m) == TRUE

\* is_better_quality_routing: there is no best routing yet, or the current
\* one has less wirelength, or the same wirelength and a shorter critical path.
is_better_quality_routing(best_routing, best_routing_metrics, m) ==
    \/ best_routing = <<>>
    \/ m.used_wirelength < best_routing_metrics.used_wirelength
    \/ /\ m.used_wirelength = best_routing_metrics.used_wirelength
       /\ m.critical_path < best_routing_metrics.critical_path

\* update_pres_fac: the new value is handed on and returned.
update_pres_fac(new_pres_fac) == new_pres_fac

\* Mutant of next_pres_fac: no clamp.
next_pres_fac_unclamped(itry, pres_fac) ==
    IF itry = 1 THEN update_pres_fac(opts.initial_pres_fac)
    ELSE update_pres_fac(pres_fac * opts.pres_fac_mult)

\* "Update pres_fac" at the end of iteration itry.
next_pres_fac(itry, pres_fac) ==
    IF itry = 1 THEN update_pres_fac(opts.initial_pres_fac)
    ELSE update_pres_fac(Min(pres_fac * opts.pres_fac_mult, PresFacCap))

\* Mutant of predictor_abort: the predictor is never listened to.
predictor_abort_never(obs) == FALSE

\* The predictor's abort test of lines 597-607.
predictor_abort(obs) ==
    /\ obs.significant_overuse
    /\ obs.est = "beyond"
    /\ opts.routing_budgets_algorithm # "YOYO"
\* Mutant of iteration_converged: pending retries are not looked at.
iteration_converged_despite_retries(retry, complete) == complete

\* if (iter_ctx.nets_to_retry.empty() && is_iteration_complete(...))
iteration_converged(retry, complete) == retry = <<>> /\ complete

\* The rest of the loop body (lines 525-762).  complete:
\* is_iteration_complete, which asks for a feasible routing; reconverge,
\* early: the two exit heuristics.  exit names the break that was taken.
FinishIteration ==
    /\ main = "decide"
    /\ \E complete \in (IF ctl.obs.feasible THEN BOOLEAN ELSE {FALSE}),
          reconverge, early \in BOOLEAN :
            LET itry == ctl.itry
                obs == ctl.obs
                m == Metrics(ctl.wirelength_info, ctl.critical_path)
                converged == iteration_converged(nets_to_retry, complete)
                better == is_better_quality_routing(ctl.best_routing,
                                                    ctl.best_routing_metrics, m)
                c1 == IF converged
                      THEN [ctl EXCEPT
                              !.best_routing = IF better THEN route_trees ELSE @,
                              !.best_routing_metrics = IF better THEN m ELSE @,
                              !.routing_is_successful = IF better THEN TRUE ELSE @,
                              !.pres_fac = update_pres_fac(opts.first_iter_pres_fac),
                              !.legal_convergence_count = @ + 1,
                              !.itry_since_last_convergence = 0]
                      ELSE ctl
                c2 == [(IF c1.itry_since_last_convergence = 1
                        THEN [c1 EXCEPT !.pres_fac =
                                 update_pres_fac(opts.initial_pres_fac)]
                        ELSE c1) EXCEPT !.obs = NoObs]
                exit == IF \/ c2.legal_convergence_count >= opts.max_convergence_count
                           \/ iter_results.connections_routed = 0
                           \/ reconverge
                        THEN "done"
                        ELSE IF itry = 1 /\ early THEN "early_exit"
                        ELSE IF predictor_abort(obs) THEN "predictor"
                        ELSE IF itry = 1 /\ opts.exit_after_first_routing_iteration
                        THEN "first_iteration"
                        ELSE "none"
                c3 == IF itry >= opts.congested_iteration_threshold
                      THEN [c2 EXCEPT !.router_congestion_mode = "CONFLICTED"]
                      ELSE c2
                c4 == [c3 EXCEPT !.pres_fac = next_pres_fac(itry, @)]
                conflicted == c4.router_congestion_mode = "CONFLICTED"
                scale == conflicted
                         /\ c4.itry_conflicted_mode % BB_SCALE_ITER_COUNT = 0
                c5 == IF conflicted
                      THEN [c4 EXCEPT
                              !.bb_fac = IF scale
                                         THEN Min(Max(opts.grid_w, opts.grid_h),
                                                  @ * BB_SCALE_FACTOR)
                                         ELSE @,
                              !.itry_conflicted_mode = @ + 1]
                      ELSE c4
            IN IF exit # "none"
               THEN /\ ctl' = [c2 EXCEPT !.exit = exit]
                    /\ main' = "loop_done"
                    /\ UNCHANGED route_bb
               ELSE /\ ctl' = [c5 EXCEPT !.itry = @ + 1]
                    /\ route_bb' = IF scale THEN load_route_bb(c5.bb_fac)
                                   ELSE route_bb
                    /\ main' = IF itry + 1 <= opts.max_router_iterations
                               THEN "iter_start" ELSE "loop_done"
    /\ UNCHANGED call
    /\ UNCHANGED <<opts, netlist, tree, task, route_trees, nets_to_retry,
                   decomp_retries, iter_results, hist>>

\* Mutant of return_value: success is reported whatever was found.
return_value_always_true(routing_is_successful) == "true"

\* return routing_is_successful
return_value(routing_is_successful) ==
    IF routing_is_successful THEN "true" ELSE "false"

\* After the loop: the best routing is restored if there is one, and
\* routing_is_successful is returned.
Finish ==
    /\ main = "loop_done"
    /\ main' = "returned"
    /\ ctl' = [ctl EXCEPT !.result = return_value(ctl.routing_is_successful)]
    /\ route_trees' = IF ctl.routing_is_successful THEN ctl.best_routing
                      ELSE route_trees
    /\ UNCHANGED call
    /\ UNCHANGED <<opts, netlist, route_bb, tree, task, nets_to_retry,
                   decomp_retries, iter_results, hist>>

(***************************************************************************)
(* Runs of the router                                                      *)
(***************************************************************************)
\* A 10 x 13 device.  Net 1 spans it with six sinks, net 2 lies above row 6
\* and net 3 below it; their columns overlap.
NetlistSpanning ==
    <<Net(XY(0, 0),
          <<XY(1, 1), XY(8, 2), XY(2, 9), XY(7, 10), XY(3, 3), XY(6, 11)>>,
          <<6, 5, 4, 3, 2, 1>>),
      Net(XY(3, 1), <<XY(4, 4)>>, <<1>>),
      Net(XY(3, 8), <<XY(5, 11)>>, <<1>>)>>

\* As NetlistSpanning, but net 1 has its source below the cutline and all
\* its sinks above it.
NetlistSourceBelow ==
    <<Net(XY(1, 11),
          <<XY(1, 1), XY(8, 2), XY(2, 4), XY(7, 5), XY(3, 3), XY(6, 6)>>,
          <<6, 5, 4, 3, 2, 1>>),
      Net(XY(3, 1), <<XY(4, 4)>>, <<1>>),
      Net(XY(3, 8), <<XY(5, 11)>>, <<1>>)>>

\* As NetlistSpanning, with two more sinks of net 1 on either side of the
\* cutline: each half is left with two sinks once the skeleton is routed.
NetlistCrowded ==
    <<Net(XY(0, 0),
          <<XY(1, 1), XY(8, 2), XY(2, 9), XY(7, 10), XY(3, 3), XY(6, 11),
            XY(4, 2), XY(5, 8)>>,
          <<8, 7, 6, 5, 1, 2, 3, 4>>),
      Net(XY(3, 1), <<XY(4, 4)>>, <<1>>),
      Net(XY(3, 8), <<XY(5, 11)>>, <<1>>)>>

\* A net three columns wide and three rows high.
NetlistThin == <<Net(XY(2, 2), <<XY(2, 2)>>, <<1>>)>>

\* Two nets that a vertical cutline separates.
NetlistColumns ==
    <<Net(XY(0, 1), <<XY(0, 2)>>, <<1>>), Net(XY(5, 1), <<XY(5, 2)>>, <<1>>)>>

Scenario(o, nl) == [opts |-> o, netlist |-> nl]

Scenarios ==
    {Scenario(RouterOpts(10, 13, 2, 2, 2, "any"), NetlistSpanning),
     Scenario(RouterOpts(10, 13, 2, 1, 1, "ok"), NetlistSourceBelow),
     Scenario(RouterOpts(10, 13, 2, 1, 1, "any"), NetlistCrowded),
     Scenario(RouterOpts(6, 6, 2, 1, 1, "ok"), NetlistThin),
     Scenario(RouterOpts(6, 6, 2, 1, 1, "ok"), NetlistColumns)}

\* The state when try_parallel_route_tmpl reaches its loop, for the runs of
\* a set of scenarios.
InitRun(scenarios) ==
    /\ \E s \in scenarios : opts = s.opts /\ netlist = s.netlist
    /\ route_bb = load_route_bb(opts.bb_factor)
    /\ tree = <<>>
    /\ task = <<>>
    /\ route_trees = NoRouteTrees
    /\ nets_to_retry = <<>>
    /\ decomp_retries = [n \in DOMAIN netlist |-> 0]
    /\ ctl = InitCtl
    /\ iter_results = NoResults
    /\ main = IF opts.max_router_iterations >= 1 THEN "iter_start" ELSE "loop_done"
    /\ hist = NoHist
    /\ call = NoCall

Init == InitRun(Scenarios)

Next ==
    \/ BeginIteration
    \/ \E p \in DOMAIN task : StartTask(p)
    \/ \E p \in DOMAIN task : BeginNet(p)
    \/ \E p \in DOMAIN task : EndSkeleton(p)
    \/ \E p \in DOMAIN task : EndNet(p)
    \/ \E p \in DOMAIN task : BeginVnet(p)
    \/ \E p \in DOMAIN task : EndVnet(p)
    \/ \E p \in DOMAIN task : FinishTask(p)
    \/ DispatcherReturn
    \/ MeasureIteration
    \/ FinishIteration
    \/ Finish

Spec == Init /\ [][Next]_vars

(***************************************************************************)
(* Runs that enter conflicted congestion mode in the first iteration       *)
(***************************************************************************)
\* high_effort_congestion_mode_iteration_threshold is 1: the bboxes are
\* regenerated at the end of iteration 1, and a second iteration follows.
ConflictedOpts ==
    [RouterOpts(10, 13, 2, 2, 2, "any")
        EXCEPT !.congested_iteration_threshold = 1,
               !.routing_failure_predictor = "OFF"]

InitConflicted == InitRun({Scenario(ConflictedOpts, NetlistSpanning)})

SpecConflicted == InitConflicted /\ [][Next]_vars

(***************************************************************************)
(* Runs long enough to use up the decompositions of a net                  *)
(***************************************************************************)
\* As NetlistSourceBelow, with nets 2 and 3 ignored by the router: they
\* shape the tree, and only net 1 is routed.
NetlistQuiet ==
    [NetlistSourceBelow EXCEPT ![2].is_ignored = TRUE, ![3].is_ignored = TRUE]

\* Seven iterations at most, ended by the first legal convergence.
RetriesOpts ==
    [RouterOpts(10, 13, 2, MAX_DECOMP_REROUTE + 2, 1, "any")
        EXCEPT !.routing_failure_predictor = "OFF"]

InitRetries == InitRun({Scenario(RetriesOpts, NetlistQuiet)})

SpecRetries == InitRetries /\ [][Next]_vars

(***************************************************************************)
(* Runs of the convergence loop over several iterations                    *)
(***************************************************************************)
\* One net with one sink on a 6 x 6 device: a single leaf, never decomposed.
NetlistSquare == <<Net(XY(1, 1), <<XY(4, 4)>>, <<1>>)>>

\* A design without nets.
NetlistEmpty == <<>>

\* Options of the loop runs: the router may fail, the routings differ in
\* quality, the predictor is on.
LoopOpts(max_router_iterations, max_convergence_count, budgets) ==
    [RouterOpts(6, 6, 2, max_router_iterations, max_convergence_count, "any")
        EXCEPT !.quality_levels = 2, !.routing_budgets_algorithm = budgets]

\* Designs on a 6 x 6 device: no net is wide enough to be decomposed.
ScenariosSmall ==
    {Scenario(LoopOpts(6, 2, "DISABLE"), NetlistSquare),
     Scenario(LoopOpts(2, 1, "YOYO"), NetlistSquare),
     Scenario(RouterOpts(6, 6, 2, 1, 1, "ok"), NetlistColumns),
     Scenario(RouterOpts(6, 6, 2, 1, 1, "ok"), NetlistEmpty)}

ScenariosLoop ==
    ScenariosSmall
    \cup {Scenario(RouterOpts(10, 13, 2, 1, 1, "ok"), NetlistSourceBelow)}

InitLoop == InitRun(ScenariosLoop)

SpecLoop == InitLoop /\ [][Next]_vars

InitLive == InitRun(ScenariosSmall)

\* The steps of Next that a run without decomposed nets takes: no skeleton
\* and no virtual net is ever begun.
NextLive ==
    \/ BeginIteration
    \/ \E p \in DOMAIN task : StartTask(p)
    \/ \E p \in DOMAIN task : BeginNet(p)
    \/ \E p \in DOMAIN task : EndNet(p)
    \/ \E p \in DOMAIN task : FinishTask(p)
    \/ DispatcherReturn
    \/ MeasureIteration
    \/ FinishIteration
    \/ Finish

\* The calling thread and the TBB workers keep running: a step that can be
\* taken is taken.
SpecLive == InitLive /\ [][NextLive]_vars /\ WF_vars(NextLive)

(***************************************************************************)
(* Properties of the dispatcher and of the controller                      *)
(***************************************************************************)
\* The tasks that are inside a routing call.
ActiveTasks == {p \in DOMAIN task : task[p].op.kind # "none"}

\* Two bboxes (borders included) share a grid location.
Overlap(a, b) ==
    /\ a.xmin <= b.xmax /\ b.xmin <= a.xmax
    /\ a.ymin <= b.ymax /\ b.ymin <= a.ymax

Parent(p) == SubSeq(p, 1, Len(p) - 1)

\* C2: at any moment of a dispatch, the routing operations of two different
\* running tasks use expansion bboxes that do not overlap (the net's bbox for
\* a net or a skeleton, the clipped bbox for a virtual net).
C2_DisjointConcurrentBBoxes ==
    \A p, q \in ActiveTasks :
        p # q => ~Overlap(task[p].op.bb, task[q].op.bb)

\* Two tasks route at the same time, one of them a virtual net.
C2_Witness ==
    \E p, q \in ActiveTasks :
        p # q /\ task[p].op.kind = "vnet" /\ task[q].op.kind = "net"

\* C3: a net's route tree is extended by at most one task at a time: no two
\* running tasks are at the same time inside a routing call on the same net.
C3_OneTaskPerRouteTree ==
    \A p, q \in ActiveTasks : p # q => task[p].op.net # task[q].op.net

\* C6 as stated: when the dispatcher has returned is_routable = true with an
\* empty retry collection, every net that needed routing in this iteration
\* has no remaining sink.
C6_RoutableMeansFullyRouted ==
    (main = "ctl" /\ iter_results.is_routable /\ nets_to_retry = <<>>) =>
        \A n \in hist.needed : remaining_isinks(n) = {}

C8_ChildAfterParent ==
    [][\A q \in DOMAIN task \cap DOMAIN task' :
          /\ (q # ROOT /\ task'[q].st # "unspawned") => task'[Parent(q)].st = "done"
          /\ task[q].st # "unspawned" =>
                tree'[q].virtual_nets = tree[q].virtual_nets]_vars

\* A child is routing a virtual net it inherited.
C8_Witness ==
    \E q \in DOMAIN task :
        /\ q # ROOT /\ task[q].op.kind = "vnet"
        /\ tree[q].virtual_nets # <<>>
        /\ task[Parent(q)].st = "done"

\* C9: when the dispatcher's post-processing has run, every task of the tree
\* is over and every node has been processed exactly once; no node is ever
\* processed twice.
C9_PostProcessAfterAllTasks ==
    /\ \A p \in DOMAIN task : hist.runs[p] <= 1
    /\ main = "ctl" =>
          \A p \in DOMAIN tree : task[p].st = "done" /\ hist.runs[p] = 1

\* The post-processing ran on a tree of three nodes and grew a bbox.
C9_Witness ==
    /\ main = "ctl"
    /\ Cardinality(DOMAIN tree) = 3
    /\ nets_to_retry # <<>>
    /\ \E n \in SeqToSet(nets_to_retry) : route_bb[n] = full_device_bb

\* C10 as stated: the call returns true exactly when some iteration was
\* counted as a legal convergence.
C10_TrueIffConverged ==
    main = "returned" =>
        (ctl.result = "true" <=> ctl.legal_convergence_count >= 1)

\* C10 amended: the call returns true exactly when some iteration was counted
\* as a legal convergence and the dispatcher of the last iteration run did
\* not report is_routable = false.
C10_TrueIffConvergedAndRoutable ==
    main = "returned" =>
        (ctl.result = "true" <=>
            (ctl.legal_convergence_count >= 1 /\ iter_results.is_routable))

\* The call returned false after an iteration had been counted as a legal
\* convergence.
C10_Witness ==
    /\ main = "returned"
    /\ ctl.result = "false"
    /\ ctl.legal_convergence_count >= 1

\* C11: when the dispatcher has returned is_routable = false, the next step
\* of the controller is its return of failure, with the iteration count, the
\* penalties and the bounding boxes as they were; nothing runs after it.
C11_FailureReturnsAtOnce ==
    [][/\ (main = "ctl" /\ ~iter_results.is_routable) =>
             /\ main' = "returned"
             /\ ctl' = [ctl EXCEPT !.result = "false"]
             /\ route_bb' = route_bb
             /\ decomp_retries' = decomp_retries
             /\ route_trees' = route_trees
        /\ main # "returned"]_vars

\* The controller returned failure on the dispatcher's is_routable = false
\* while iterations were left.
C11_Witness ==
    /\ main = "returned"
    /\ ~iter_results.is_routable
    /\ ctl.result = "false"
    /\ ctl.itry < opts.max_router_iterations

\* C12: when the dispatcher has returned, every net flagged
\* retry_with_full_bb in this iteration, as a net or as a virtual net, is in
\* nets_to_retry, has the full device as its bbox and has decomp_retries
\* equal to MAX_DECOMP_REROUTE.
C12_RetriedNetsGetFullDevice ==
    main = "ctl" =>
        \A f \in hist.flagged : f.retry_with_full_bb =>
            /\ f.net \in SeqToSet(nets_to_retry)
            /\ route_bb[f.net] = t_bb(0, opts.grid_w - 1, 0, opts.grid_h - 1)
            /\ decomp_retries[f.net] = MAX_DECOMP_REROUTE

\* The dispatcher returned after a virtual net was flagged retry_with_full_bb.
C12_Witness ==
    /\ main = "ctl"
    /\ \E f \in hist.flagged : f.retry_with_full_bb /\ f.kind = "vnet"

\* C17: once route_and_decompose has returned the two virtual nets of a net,
\* the net's route tree reaches a sink on each side of the node's cutline.
C17_SinkReachedOnEachSide ==
    main = "dispatch" =>
        \A f \in hist.flagged : f.kind = "decomposed" =>
            \A side \in {"LEFT", "RIGHT"} :
                \E s \in route_trees[f.net].reached :
                    which_side(terminal_xy(f.net, s), tree[f.node].cutline_pos,
                               tree[f.node].cutline_axis) = side

\* C18: a virtual net held by a node has a valid clipped bbox strictly inside
\* the bbox of its net; in a left child it ends at the parent's cutline_pos,
\* in a right child it starts at cutline_pos + 1.
C18_HalvesGoToTheirSides ==
    main = "dispatch" =>
        \A p \in DOMAIN tree : \A i \in 1..Len(tree[p].virtual_nets) :
            LET vnet == tree[p].virtual_nets[i]
                bb == vnet.clipped_bb
                net_bb == route_bb[vnet.net_id]
                axis == tree[Parent(p)].cutline_axis
                pos == tree[Parent(p)].cutline_pos
            IN /\ p # ROOT
               /\ ValidBB(bb)
               /\ bb # net_bb
               /\ bb.xmin >= net_bb.xmin /\ bb.xmax <= net_bb.xmax
               /\ bb.ymin >= net_bb.ymin /\ bb.ymax <= net_bb.ymax
               /\ IF p = Append(Parent(p), 0)
                  THEN bb_hi(bb, axis) = pos /\ bb_lo(bb, axis) = bb_lo(net_bb, axis)
                  ELSE bb_lo(bb, axis) = pos + 1 /\ bb_hi(bb, axis) = bb_hi(net_bb, axis)

\* Both children of the root hold the half of a net whose source lies on the
\* right of the cutline.
C18_Witness ==
    /\ main = "dispatch"
    /\ <<0>> \in DOMAIN tree /\ <<1>> \in DOMAIN tree
    /\ \E i \in 1..Len(tree[<<0>>].virtual_nets) :
       \E j \in 1..Len(tree[<<1>>].virtual_nets) :
          /\ tree[<<0>>].virtual_nets[i].net_id = tree[<<1>>].virtual_nets[j].net_id
          /\ which_side(terminal_xy(tree[<<0>>].virtual_nets[i].net_id, 0),
                        tree[ROOT].cutline_pos, tree[ROOT].cutline_axis) = "RIGHT"

\* The pairs <<left half, right half>> of one net held by the children of p.
HalvesAt(p) ==
    {<<l, r>> \in SeqToSet(tree[Append(p, 0)].virtual_nets)
                     \X SeqToSet(tree[Append(p, 1)].virtual_nets) :
        l.net_id = r.net_id}

\* C39: the two virtual nets of a decomposed net whose sinks all lie inside
\* its bbox have disjoint sink sets that together are all sinks of the net,
\* and the source is inside the half on the source's side of the cutline.
C39_HalvesPartitionTheSinks ==
    main = "dispatch" =>
        \A p \in DOMAIN tree : (has_left(p) /\ has_right(p)) =>
            \A h \in HalvesAt(p) :
                LET net_id == h[1].net_id
                    source_side == which_side(terminal_xy(net_id, 0),
                                        tree[p].cutline_pos, tree[p].cutline_axis)
                    source_half == IF source_side = "LEFT" THEN h[1] ELSE h[2]
                IN (\A isink \in isinks_of(net_id) :
                        inside_bb(terminal_xy(net_id, isink), route_bb[net_id]))
                   => /\ get_vnet_isinks(h[1]) \cap get_vnet_isinks(h[2]) = {}
                      /\ get_vnet_isinks(h[1]) \cup get_vnet_isinks(h[2])
                            = isinks_of(net_id)
                      /\ inside_bb(terminal_xy(net_id, 0), source_half.clipped_bb)

\* A net of three or more sinks has been decomposed at the root and one of
\* its sinks is in the last row or column before the cutline.
C39_Witness ==
    /\ main = "dispatch"
    /\ has_left(ROOT) /\ has_right(ROOT)
    /\ \E h \in HalvesAt(ROOT) :
          /\ Cardinality(isinks_of(h[1].net_id)) >= 3
          /\ \E isink \in get_vnet_isinks(h[1]) :
                LET pt == terminal_xy(h[1].net_id, isink)
                IN IF tree[ROOT].cutline_axis = "X"
                   THEN pt.x = tree[ROOT].cutline_pos
                   ELSE pt.y = tree[ROOT].cutline_pos

\* C20: when route_and_decompose starts on a net whose route tree reaches a
\* sink across the cutline from the source, it has no skeleton connection to
\* route.
C20_NoSkeletonWhenOverCutline ==
    \A p \in DOMAIN task :
        (/\ task[p].op.kind = "skeleton"
         /\ is_routing_over_cutline(task[p].op.net,
                route_trees[task[p].op.net].reached,
                tree[p].cutline_pos, tree[p].cutline_axis))
        => task[p].op.sinks = <<>>

\* C21: when the connection router fails on a skeleton sink, the task goes on
\* to route the same net directly at the same node, and the net's
\* decomp_retries counter is one higher than before.
C21_FailedSkeletonCountsRetry ==
    [][\A p \in DOMAIN task \cap DOMAIN task' :
          (task[p].op.kind = "skeleton" /\ task'[p].op.kind = "net") =>
              /\ task'[p].op.net = task[p].op.net
              /\ task'[p].i = task[p].i
              /\ decomp_retries'[task[p].op.net]
                    = decomp_retries[task[p].op.net] + 1]_vars

\* The sinks of a net whose terminal lies inside the bbox.
SinksInside(net_id, bb) ==
    {s \in isinks_of(net_id) : inside_bb(terminal_xy(net_id, s), bb)}

\* C22: route_virtual_net starts with exactly the net's unrouted sinks that
\* lie inside the virtual net's clipped bbox, in decreasing criticality and
\* with the clipped bbox as the expansion limit; when it returns it has
\* connected the sinks before the first failure and no other sink, so none
\* outside the clipped bbox, and it reports success exactly when none failed.
C22_VnetRoutesItsRemainingSinks ==
    [][\A p \in DOMAIN task \cap DOMAIN task' :
          /\ (task[p].op.kind = "none" /\ task'[p].op.kind = "vnet") =>
                LET op == task'[p].op
                    vnet == tree[p].virtual_nets[task[p].i]
                    todo == SinksInside(vnet.net_id, vnet.clipped_bb)
                                \ route_trees[vnet.net_id].reached
                    crit == netlist[vnet.net_id].crit
                IN /\ op.net = vnet.net_id
                   /\ op.bb = vnet.clipped_bb
                   /\ SeqToSet(op.sinks) = todo
                   /\ Len(op.sinks) = Cardinality(todo)
                   /\ \A i \in 1..Len(op.sinks) - 1 :
                         crit[op.sinks[i]] >= crit[op.sinks[i + 1]]
          /\ (task[p].op.kind = "vnet" /\ task'[p].op.kind = "none") =>
                LET op == task[p].op
                    added == route_trees'[op.net].reached
                                 \ route_trees[op.net].reached
                IN /\ added \subseteq SinksInside(op.net, op.bb)
                   /\ \E k \in 0..Len(op.sinks) :
                         /\ added = Prefix(op.sinks, k)
                         /\ \E f \in hist'.flagged \ hist.flagged :
                               /\ f.node = p /\ f.net = op.net /\ f.kind = "vnet"
                               /\ f.success <=> k = Len(op.sinks)]_vars

\* A virtual net had two sinks to route while the net had unrouted sinks
\* outside its clipped bbox, connected the more critical one, which is the
\* later one in pin order, and failed on the other.
C22_Witness ==
    /\ main = "dispatch"
    /\ \E f \in hist.flagged :
          /\ f.kind = "vnet" /\ ~f.success
          /\ \E i \in 1..Len(tree[f.node].virtual_nets) :
                LET vnet == tree[f.node].virtual_nets[i]
                    inside == SinksInside(f.net, vnet.clipped_bb)
                IN /\ vnet.net_id = f.net
                   /\ remaining_isinks(f.net) \ inside # {}
                   /\ \E a, b \in inside :
                         /\ a < b /\ a \in remaining_isinks(f.net)
                         /\ b \notin remaining_isinks(f.net)
                         /\ netlist[f.net].crit[a] < netlist[f.net].crit[b]
                         /\ \A c \in inside : netlist[f.net].crit[c] > netlist[f.net].crit[b]
                               => c \in route_trees[f.net].reached

\* C28: route_and_decompose never produces virtual nets for a net whose
\* current bbox is the full device.
C28_FullDeviceNetNotDecomposed ==
    [][\A p \in DOMAIN tree \cap DOMAIN tree' :
          Len(tree'[p].virtual_nets) > Len(tree[p].virtual_nets) =>
             LET vnet == tree'[p].virtual_nets[Len(tree'[p].virtual_nets)]
             IN route_bb[vnet.net_id] # full_device_bb]_vars

\* C31: a net put in the retry collection in iteration i has, when the tree
\* of iteration i+1 is built, the full device as its bbox, is held at the
\* root, and has used up its decompositions; and no decomposition is begun
\* for a net that has used them up.
C31_RetriedNetAtRootNextIteration ==
    [][/\ (main = "iter_start" /\ main' = "dispatch") =>
            \A n \in SeqToSet(nets_to_retry) :
               /\ route_bb'[n] = full_device_bb
               /\ n \in SeqToSet(tree'[ROOT].nets)
               /\ decomp_retries'[n] >= MAX_DECOMP_REROUTE
       /\ \A p \in DOMAIN task \cap DOMAIN task' :
            (task[p].op.kind # "skeleton" /\ task'[p].op.kind = "skeleton")
               => decomp_retries[task'[p].op.net] < MAX_DECOMP_REROUTE]_vars

\* C32: decomp_retries of every net stays within 0..MAX_DECOMP_REROUTE and
\* never decreases; every successful decomposition adds one to it, and no
\* decomposition is begun for a net whose counter has reached the maximum.
C32_DecompRetriesBounded ==
    [][/\ \A n \in DOMAIN decomp_retries :
            /\ decomp_retries[n] \in 0..MAX_DECOMP_REROUTE
            /\ decomp_retries'[n] \in 0..MAX_DECOMP_REROUTE
            /\ decomp_retries'[n] >= decomp_retries[n]
       /\ \A f \in hist'.flagged \ hist.flagged :
            f.kind = "decomposed" =>
               decomp_retries'[f.net] = decomp_retries[f.net] + 1
       /\ \A p \in DOMAIN task \cap DOMAIN task' :
            (task[p].op.kind # "skeleton" /\ task'[p].op.kind = "skeleton")
               => decomp_retries[task'[p].op.net] < MAX_DECOMP_REROUTE]_vars

\* The fifth decomposition of net 1 has succeeded in the fifth iteration,
\* and nothing failed in that iteration.
C32_Witness ==
    /\ main = "dispatch"
    /\ ctl.itry = MAX_DECOMP_REROUTE
    /\ decomp_retries[1] = MAX_DECOMP_REROUTE
    /\ \E f \in hist.flagged : f.kind = "decomposed" /\ f.net = 1
    /\ \A f \in hist.flagged : f.success /\ ~f.retry_with_full_bb

\* A routing call of the task of node p is in progress.
Busy(pos) == pos.op.kind # "none"

C23_LoopEndsWithinMaxIterations ==
    /\ [](main \in {"iter_start", "dispatch", "ctl"}
            => ctl.itry <= opts.max_router_iterations)
    /\ [](main = "returned" /\ ctl.legal_convergence_count = 0
            => ctl.result = "false")
    /\ <>(main = "returned")

RECURSIVE PresFacSchedule(_)
\* The penalty factor of iteration k when no iteration before it converged.
PresFacSchedule(k) ==
    IF k = 1 THEN opts.first_iter_pres_fac
    ELSE IF k = 2 THEN opts.initial_pres_fac
    ELSE Min(PresFacSchedule(k - 1) * opts.pres_fac_mult, PresFacCap)

\* C24: as long as no iteration was a legal convergence, iteration 1 is
\* routed with first_iter_pres_fac, iteration 2 with initial_pres_fac and
\* iteration k >= 3 with the factor of iteration k - 1 times pres_fac_mult,
\* clamped to the overflow cap.
C24_PresFacSchedule ==
    (/\ main \in {"iter_start", "dispatch", "ctl", "decide"}
     /\ ctl.legal_convergence_count = 0)
        => ctl.pres_fac = PresFacSchedule(ctl.itry)

\* The sixth iteration is routed with the clamped factor.
C24_Witness ==
    /\ main = "dispatch"
    /\ ctl.itry = 6
    /\ ctl.legal_convergence_count = 0
    /\ ctl.pres_fac = PresFacCap
    /\ PresFacSchedule(5) * opts.pres_fac_mult > PresFacCap

\* C37: the iteration after a legal convergence is routed with
\* first_iter_pres_fac and the one after that with initial_pres_fac.
C37_PresFacAfterConvergence ==
    main \in {"dispatch", "ctl", "decide"} =>
        /\ ctl.itry_since_last_convergence = 1
              => ctl.pres_fac = opts.first_iter_pres_fac
        /\ ctl.itry_since_last_convergence = 2
              => ctl.pres_fac = opts.initial_pres_fac

\* C38: an iteration is counted as a legal convergence, and its routing
\* saved, only if no net was flagged for a retry in that iteration's
\* dispatch; every dispatch starts with an empty retry collection.
C38_ConvergenceOnlyWithoutRetries ==
    [][/\ (\/ ctl'.legal_convergence_count # ctl.legal_convergence_count
           \/ ctl'.best_routing # ctl.best_routing)
          => /\ main = "decide"
             /\ nets_to_retry = <<>>
             /\ \A f \in hist.flagged : ~f.retry_with_full_bb
       /\ (main = "iter_start" /\ main' = "dispatch") => nets_to_retry' = <<>>
      ]_vars

\* An iteration without retries has just been counted as a convergence
\* although a net was sent to retry in an earlier iteration.
C38_Witness ==
    /\ main \in {"iter_start", "loop_done"}
    /\ ctl.itry_since_last_convergence = 0
    /\ ctl.legal_convergence_count >= 1
    /\ ctl.itry <= 3
    /\ nets_to_retry = <<>>
    /\ \A f \in hist.flagged : f.success
    /\ \E n \in DOMAIN decomp_retries : decomp_retries[n] = MAX_DECOMP_REROUTE

\* Metrics a are strictly better than b: less wirelength, or as much and a
\* shorter critical path.
StrictlyBetter(a, b) ==
    \/ a.used_wirelength < b.used_wirelength
    \/ a.used_wirelength = b.used_wirelength /\ a.critical_path < b.critical_path

\* C25: the stored best routing and its metrics change only on the step that
\* counts a legal convergence, to the current routing and its metrics, and
\* only when there was no best routing or the current metrics are strictly
\* better; once there is a best routing there always is one, and its metrics
\* never get worse.
C25_BestNeverRegresses ==
    [][LET old == ctl.best_routing_metrics
           new == ctl'.best_routing_metrics
       IN /\ (ctl'.best_routing # ctl.best_routing \/ new # old) =>
                /\ main = "decide"
                /\ ctl.obs.feasible /\ nets_to_retry = <<>>
                /\ ctl'.legal_convergence_count = ctl.legal_convergence_count + 1
                /\ ctl'.best_routing = route_trees
                /\ new = Metrics(ctl.wirelength_info, ctl.critical_path)
                /\ ctl.best_routing = <<>> \/ StrictlyBetter(new, old)
          /\ ctl.best_routing # <<>> =>
                /\ ctl'.best_routing # <<>>
                /\ new = old \/ StrictlyBetter(new, old)]_vars

\* The loop ended on a second legal convergence whose routing was not
\* better than the stored one, and the stored one was kept.
C25_Witness ==
    /\ main = "loop_done"
    /\ ctl.legal_convergence_count = 2
    /\ ctl.best_routing # <<>>
    /\ StrictlyBetter(ctl.best_routing_metrics,
                      Metrics(ctl.wirelength_info, ctl.critical_path))

\* What an abort by the predictor leaves behind.
AbortedByPredictor ==
    /\ main' = "loop_done"
    /\ ctl'.exit = "predictor"
    /\ ctl'.best_routing = ctl.best_routing
    /\ ctl'.best_routing_metrics = ctl.best_routing_metrics
    /\ ctl'.routing_is_successful = ctl.routing_is_successful
    /\ ctl'.legal_convergence_count = ctl.legal_convergence_count

\* An earlier termination test ended the iteration.
EndedByEarlierTest == main' = "loop_done" /\ ctl'.exit \in {"done", "early_exit"}

\* C29 as stated: in an iteration whose estimated success iteration is beyond
\* the abort threshold the loop ends, by an earlier termination test or by
\* the predictor's abort, which leaves best-so-far as it was; a call the
\* predictor aborted before any legal convergence returns false.
C29_PredictedFailureAborts ==
    /\ [][(main = "decide" /\ ctl.obs.est = "beyond")
            => (EndedByEarlierTest \/ AbortedByPredictor)]_vars
    /\ [](main = "returned" /\ ctl.exit = "predictor"
            /\ ctl.legal_convergence_count = 0 => ctl.result = "false")

\* C29 amended: the same, for the iterations that also have more overused
\* nodes than the predictor's minimum and are not run with the YOYO budgets;
\* in no other iteration does the predictor abort the loop.
C29_SignificantPredictedFailureAborts ==
    /\ [][/\ (/\ main = "decide" /\ ctl.obs.est = "beyond"
              /\ ctl.obs.significant_overuse
              /\ opts.routing_budgets_algorithm # "YOYO")
                => (EndedByEarlierTest \/ AbortedByPredictor)
          /\ (main = "decide" /\ ctl'.exit = "predictor") =>
                /\ ctl.obs.est = "beyond" /\ ctl.obs.significant_overuse
                /\ opts.routing_budgets_algorithm # "YOYO"
                /\ AbortedByPredictor]_vars
    /\ [](main = "returned" /\ ctl.exit = "predictor"
            /\ ctl.legal_convergence_count = 0 => ctl.result = "false")

\* The predictor aborted a call in its third iteration, before any legal
\* convergence, and the call returned false.
C29_Witness ==
    /\ main = "returned"
    /\ ctl.exit = "predictor"
    /\ ctl.itry = 3
    /\ ctl.legal_convergence_count = 0
    /\ ctl.result = "false"

\* C30: the constructor leaves a root node for every netlist: root() is
\* never applied to a tree without one.
C30_RootAlwaysCreated ==
    /\ main # "null_root"
    /\ main = "dispatch" => ROOT \in DOMAIN tree

(***************************************************************************)
(* The decomposition helpers applied on their own, over small inputs       *)
(***************************************************************************)
FnMaxDim == 15
FnOrigin == 1
FnMaxSinks == 8
FnMaxWorkers == 4
FnMaxLevel == 3
FnIsinks == 3
FnCritLevels == 2

\* A bbox W wide and H high.
FnBB(W, H) == t_bb(FnOrigin, FnOrigin + W - 1, FnOrigin, FnOrigin + H - 1)

FnOpts(num_workers) ==
    RouterOpts(FnOrigin + FnMaxDim, FnOrigin + FnMaxDim, num_workers, 1, 1, "ok")

FnCall(fn, level, cutline_pos, axis) ==
    [fn |-> fn, state |-> "called", level |-> level,
     cutline_pos |-> cutline_pos, axis |-> axis, ret |-> "none"]

\* What a run that applies one helper leaves untouched.
FnIdle ==
    /\ tree = <<>>
    /\ task = <<>>
    /\ nets_to_retry = <<>>
    /\ ctl = [itry |-> 0]
    /\ iter_results = NoResults
    /\ main = "helper"
    /\ hist = NoHist

\* is_worth_decomposing on every bbox size, cutline and number of sinks.
InitWorth ==
    \E W \in 1..FnMaxDim, H \in 1..FnMaxDim, pos \in -1..FnOrigin + FnMaxDim,
       axis \in {"X", "Y"}, n \in 0..FnMaxSinks :
        /\ opts = FnOpts(2)
        /\ route_bb = <<FnBB(W, H)>>
        /\ netlist = <<BuildNet(FnBB(W, H), n)>>
        /\ route_trees = NoRouteTrees
        /\ decomp_retries = <<0>>
        /\ call = FnCall("is_worth_decomposing", 0, pos, axis)

\* should_decompose_net on a net across a 10 x 13 bbox cut in the middle:
\* every level, number of workers, retry count and clock setting.
InitLevel ==
    \E num_workers \in 1..FnMaxWorkers, level \in 0..FnMaxLevel,
       retries \in 0..MAX_DECOMP_REROUTE, is_global \in BOOLEAN,
       two_stage \in BOOLEAN, n \in {5, 6} :
        /\ opts = [FnOpts(num_workers) EXCEPT !.two_stage_clock_routing = two_stage]
        /\ route_bb = <<FnBB(10, 13)>>
        /\ netlist = <<[BuildNet(FnBB(10, 13), n) EXCEPT !.is_global = is_global]>>
        /\ route_trees = NoRouteTrees
        /\ decomp_retries = <<retries>>
        /\ call = FnCall("should_decompose_net", level, FnOrigin + 6, "Y")

\* Offsets along a side d long: the cells on either side of the first bin
\* boundary, or the first and the last cell if there is one bin only.
FnOffsets(d) ==
    LET bin_width == d \div (d \div MIN_DECOMP_BIN_WIDTH) + 1
    IN IF bin_width <= d - 1 THEN {bin_width - 1, bin_width} ELSE {0, d - 1}

FnDims == {<<5, 5>>, <<10, 5>>, <<10, 10>>, <<12, 10>>}

\* get_decomposition_isinks on nets whose sinks lie inside the bbox, with
\* every criticality order and every set of sinks already reached.
InitIsinks ==
    \E dim \in FnDims :
      LET pts == {XY(FnOrigin + dx, FnOrigin + dy) :
                     dx \in FnOffsets(dim[1]), dy \in FnOffsets(dim[2])}
      IN \E sinks \in [1..FnIsinks -> pts],
            crit \in [1..FnIsinks -> 1..FnCritLevels],
            reached \in SUBSET (1..FnIsinks) :
        /\ opts = FnOpts(2)
        /\ route_bb = <<FnBB(dim[1], dim[2])>>
        /\ netlist = <<Net(XY(FnOrigin, FnOrigin), sinks, crit)>>
        /\ route_trees = <<[exists |-> TRUE, reached |-> reached]>>
        /\ decomp_retries = <<0>>
        /\ call = FnCall("get_decomposition_isinks", 0, NO_CUTLINE, "X")

InitFn == FnIdle /\ (InitWorth \/ InitLevel)

InitSample == FnIdle /\ InitIsinks

FnReturn(r) ==
    [call EXCEPT !.state = IF r.trap THEN "trapped" ELSE "returned",
                 !.ret = r.value]

Call_is_worth_decomposing ==
    /\ call.fn = "is_worth_decomposing" /\ call.state = "called"
    /\ \E div0 \in {"trap", "zero"} :
          call' = FnReturn(is_worth_decomposing(1, call.cutline_pos, call.axis, div0))
    /\ UNCHANGED <<opts, netlist, route_bb, tree, task, route_trees, nets_to_retry,
                   decomp_retries, ctl, iter_results, main, hist>>

Call_should_decompose_net ==
    /\ call.fn = "should_decompose_net" /\ call.state = "called"
    /\ \E div0 \in {"trap", "zero"} :
          call' = FnReturn(should_decompose_net(1, call.level, call.cutline_pos,
                                                call.axis, div0))
    /\ UNCHANGED <<opts, netlist, route_bb, tree, task, route_trees, nets_to_retry,
                   decomp_retries, ctl, iter_results, main, hist>>

\* As route_and_decompose calls it: the remaining targets sorted by criticality.
Call_get_decomposition_isinks ==
    /\ call.fn = "get_decomposition_isinks" /\ call.state = "called"
    /\ call' = [call EXCEPT
          !.state = "returned",
          !.ret = get_decomposition_isinks(1,
                      sort_by_criticality(1, remaining_isinks(1)),
                      route_trees[1].reached)]
    /\ UNCHANGED <<opts, netlist, route_bb, tree, task, route_trees, nets_to_retry,
                   decomp_retries, ctl, iter_results, main, hist>>

NextFn ==
    \/ Call_is_worth_decomposing
    \/ Call_should_decompose_net

SpecFn == InitFn /\ [][NextFn]_vars

NextSample == Call_get_decomposition_isinks

SpecSample == InitSample /\ [][NextSample]_vars

\* should_decompose_net as the helper calls it for the nets of a leaf node:
\* cutline_pos and cutline_axis are the defaults of PartitionTreeNode, the
\* bbox is any bbox on the device.
InitLeafNet ==
    \E num_workers \in 1..FnMaxWorkers, level \in 0..FnMaxLevel,
       x \in 0..FnOrigin, y \in 0..FnOrigin,
       W \in 1..FnMaxDim, H \in 1..FnMaxDim :
        LET bb == t_bb(x, x + W - 1, y, y + H - 1) IN
        /\ opts = FnOpts(num_workers)
        /\ route_bb = <<bb>>
        /\ netlist = <<BuildNet(bb, FnMaxSinks)>>
        /\ route_trees = NoRouteTrees
        /\ decomp_retries = <<0>>
        /\ call = FnCall("should_decompose_net", level, NO_CUTLINE, "X")

NextLeaf == Call_should_decompose_net

InitLeaf == FnIdle /\ InitLeafNet

SpecLeaf == InitLeaf /\ [][NextLeaf]_vars

(***************************************************************************)
(* Properties of the decomposition helpers                                 *)
(***************************************************************************)
Returned(fn) == call.fn = fn /\ call.state = "returned"

BBWidth(net_id) == route_bb[net_id].xmax - route_bb[net_id].xmin + 1
BBHeight(net_id) == route_bb[net_id].ymax - route_bb[net_id].ymin + 1
BinsX(net_id) == BBWidth(net_id) \div MIN_DECOMP_BIN_WIDTH
BinsY(net_id) == BBHeight(net_id) \div MIN_DECOMP_BIN_WIDTH
NSamples(net_id) == Max(2 * (BinsX(net_id) + BinsY(net_id)) - 4, 4)

\* The bbox is at least one bin wide and high: no division by zero.
AtLeastOneBin(net_id) ==
    BBWidth(net_id) >= MIN_DECOMP_BIN_WIDTH /\ BBHeight(net_id) >= MIN_DECOMP_BIN_WIDTH

\* C13: should_decompose_net returns true only at a level of at most
\* ceil(log2(num_workers)) - 1; with one worker that is no level at all.
C13_TrueOnlyWithinDepth ==
    (Returned("should_decompose_net") /\ call.ret = TRUE)
        => call.level <= log2_ceil(opts.num_workers) - 1

\* C14: for a bbox narrower or lower than MIN_DECOMP_BIN_WIDTH,
\* is_worth_decomposing ends without an error and returns false.
C14_ThinNetReturnsFalse ==
    (/\ call.fn = "is_worth_decomposing" /\ call.state # "called"
     /\ (BBWidth(1) < MIN_DECOMP_BIN_WIDTH \/ BBHeight(1) < MIN_DECOMP_BIN_WIDTH))
        => (call.state = "returned" /\ call.ret = FALSE)

\* C15: when is_worth_decomposing returns true, the parts of the bbox on
\* either side of the cutline are each at least one bin of the cut axis wide
\* (stated for the bboxes of at least one bin, where the bins are defined).
C15_FullBinOnEachSide ==
    (Returned("is_worth_decomposing") /\ call.ret = TRUE /\ AtLeastOneBin(1)) =>
        LET bb == route_bb[1]
            bin_w == BBWidth(1) \div BinsX(1) + 1
            bin_h == BBHeight(1) \div BinsY(1) + 1
            p == call.cutline_pos
        IN IF call.axis = "X"
           THEN p - bb.xmin + 1 >= bin_w /\ bb.xmax - p >= bin_w
           ELSE p - bb.ymin + 1 >= bin_h /\ bb.ymax - p >= bin_h

\* C16: is_worth_decomposing returns true only for a net with more than
\* max(2 * (bins_x + bins_y) - 4, 4) + 2 sinks (stated for the bboxes of
\* at least one bin, where the result is defined).
C16_MoreSinksThanSamplesPlusTwo ==
    (Returned("is_worth_decomposing") /\ call.ret = TRUE /\ AtLeastOneBin(1))
        => Len(netlist[1].sinks) > NSamples(1) + 2

\* C16 as the code has it: the terminals, source included, are more than
\* max(2 * (bins_x + bins_y) - 4, 4) + 2, so the sinks are at least that many.
C16_MoreTerminalsThanSamplesPlusTwo ==
    (Returned("is_worth_decomposing") /\ call.ret = TRUE)
        => /\ Len(netlist[1].sinks) + 1 > NSamples(1) + 2
           /\ Len(netlist[1].sinks) >= NSamples(1) + 2

\* is_worth_decomposing returned true for a net with exactly
\* max(2 * (bins_x + bins_y) - 4, 4) + 2 sinks.
C16_Witness ==
    /\ Returned("is_worth_decomposing") /\ call.ret = TRUE
    /\ AtLeastOneBin(1)
    /\ Len(netlist[1].sinks) = NSamples(1) + 2

\* C19: for a bbox at least 5 x 5 with the sinks inside it,
\* get_decomposition_isinks returns at most bins_x * bins_y sinks, at most
\* one per bin, none from a bin that holds a reached sink, and the sink of a
\* bin is a most critical one among the remaining sinks of that bin.
C19_OneMostCriticalSinkPerBin ==
    (/\ Returned("get_decomposition_isinks")
     /\ AtLeastOneBin(1)
     /\ \A s \in isinks_of(1) : inside_bb(terminal_xy(1, s), route_bb[1]))
    => LET out == call.ret
           reached == route_trees[1].reached
       IN /\ Len(out) <= BinsX(1) * BinsY(1)
          /\ \A i, j \in 1..Len(out) : i # j => bin_of(1, out[i]) # bin_of(1, out[j])
          /\ \A i \in 1..Len(out) :
                /\ out[i] \in remaining_isinks(1)
                /\ \A r \in reached : bin_of(1, r) # bin_of(1, out[i])
                /\ \A s \in remaining_isinks(1) :
                      bin_of(1, s) = bin_of(1, out[i])
                          => netlist[1].crit[out[i]] >= netlist[1].crit[s]

\* A bin holds a reached sink, and in another bin a sink was sampled
\* although a less critical sink of that bin comes first in pin order.
C19_Witness ==
    /\ Returned("get_decomposition_isinks")
    /\ route_trees[1].reached # {}
    /\ Len(call.ret) >= 1
    /\ \E s \in remaining_isinks(1) :
          /\ s < call.ret[1]
          /\ bin_of(1, s) = bin_of(1, call.ret[1])
          /\ netlist[1].crit[s] < netlist[1].crit[call.ret[1]]


\* C40: for a net of a leaf node (cutline_pos = -1, no children),
\* should_decompose_net does not return true, whatever the number of
\* workers, the level and the net's bbox: the helper has no virtual net to
\* push to a missing child.
C40_NoDecompositionAtLeaf ==
    (Returned("should_decompose_net") /\ call.cutline_pos = NO_CUTLINE)
        => call.ret = FALSE

\* should_decompose_net has returned for a net at a leaf that passes every
\* test but the one on the strip before the cutline.
C40_Witness ==
    /\ Returned("should_decompose_net")
    /\ call.cutline_pos = NO_CUTLINE /\ call.axis = "X"
    /\ ~level_too_deep(call.level)
    /\ AtLeastOneBin(1)
    /\ route_bb[1].xmax + 1 >= BBWidth(1) \div BinsX(1) + 1
    /\ ~too_few_terminals(num_terminals(1), NSamples(1))

====
